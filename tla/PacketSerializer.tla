-------------------------- MODULE PacketSerializer --------------------------
(***************************************************************************)
(* The layouts of all packets, and how they become bytes and fields again: *)
(* shared/src/net/PacketSerializer.cpp.                                    *)
(*                                                                         *)
(* A layout is a sequence of fields.  The layouts that are written and the *)
(* ones that are read stand in different functions of the program, and in  *)
(* different tables here.  A text is a sequence of bytes; a byte has Base  *)
(* values instead of 256, which keeps the numbers of eight bytes small.    *)
(***************************************************************************)
EXTENDS Integers, Sequences, SequencesExt, TLC

CONSTANT Base   \* how many values a byte has

ASSUME BaseAssumption == Base \in Nat \ {0, 1}
-----------------------------------------------------------------------------
(* Fields *)

Number(n, w) == [name |-> n, kind |-> "number", width |-> w, part |-> "always"]
U8(n)   == Number(n, 1)
U16(n)  == Number(n, 2)
U32(n)  == Number(n, 4)
U64(n)  == Number(n, 8)
F32(n)  == Number(n, 4)     \* the four bytes of a float, as they are
Bool(n) == [Number(n, 1) EXCEPT !.kind = "flag"]
I32(n)  == [Number(n, 4) EXCEPT !.kind = "signed"]    \* cast to uint32_t and back
Str(n)  == [Number(n, 4) EXCEPT !.kind = "text"]      \* a length, then bytes

\* A list of entries: each with its size in front, or one right after the other.
List(n, entry)   == [name |-> n, kind |-> "list", entry |-> entry, sized |-> TRUE]
Inline(n, entry) == [name |-> n, kind |-> "list", entry |-> entry, sized |-> FALSE]
Numbers(n) == Inline(n, <<U32("number")>>)
Strs(n)    == Inline(n, <<Str("text")>>)

\* Fields that a reader takes for absent, all of them, when nothing is left to read.
Later(fields) ==
    [i \in DOMAIN fields |->
        [fields[i] EXCEPT !.part = IF i = 1 THEN "ifAnythingIsLeft" ELSE "withTheFirst"]]

\* Fields that a reader takes for absent when it cannot read the first of them.
Lenient(fields) ==
    [i \in DOMAIN fields |->
        [fields[i] EXCEPT !.part = IF i = 1 THEN "ifItCanBeRead" ELSE "withTheFirst"]]
-----------------------------------------------------------------------------
(* Writing: ByteWriter *)

\* What the bytes of a number count for, the least one first.
Weight ==
    LET two == Base * Base
        four == two * two
    IN  <<1, Base, two, two * Base, four, four * Base, four * two, four * two * Base>>

\* The w low bytes of n, the least one first.
NumberBytes(n, w) == [i \in 1 .. w |-> (n \div Weight[i]) % Base]

FieldBytes(f, v) ==
    CASE f.kind = "number" -> NumberBytes(v, f.width)
      [] f.kind = "signed" -> NumberBytes(v % Base ^ f.width, f.width)
      [] f.kind = "flag"   -> <<IF v THEN 1 ELSE 0>>
      [] f.kind = "text"   -> NumberBytes(Len(v), f.width) \o v

EntryBytes(layout, entry) ==
    FlattenSeq([i \in DOMAIN layout |-> FieldBytes(layout[i], entry[layout[i].name])])

WithSize(bytes) == NumberBytes(Len(bytes), 4) \o bytes

ListBytes(f, entries) ==
    LET OneEntry(e) == IF f.sized THEN WithSize(EntryBytes(f.entry, e)) ELSE EntryBytes(f.entry, e)
    IN  NumberBytes(Len(entries), 4) \o FlattenSeq([i \in DOMAIN entries |-> OneEntry(entries[i])])

Serialize(layout, message) ==
    FlattenSeq([i \in DOMAIN layout |->
        LET f == layout[i]
        IN  IF f.kind = "list" THEN ListBytes(f, message[f.name])
            ELSE FieldBytes(f, message[f.name])])
-----------------------------------------------------------------------------
(* Reading: ByteReader.  A reader holds the bytes that are left, the fields read
   so far, whether it has failed, and whether the optional fields are absent. *)

ByteReader(bytes) == [ok |-> TRUE, absent |-> FALSE, out |-> <<>>, rest |-> bytes]

SetField(message, n, v) ==
    [k \in DOMAIN message \cup {n} |-> IF k = n THEN v ELSE message[k]]

Fail(r) == [r EXCEPT !.ok = FALSE]

Drop(bytes, n) == SubSeq(bytes, n + 1, Len(bytes))

\* The number in the first w bytes, of which there are eight at most.
NumberAt(bytes, w) ==
    LET Part(i) == IF i <= w THEN bytes[i] * Weight[i] ELSE 0
    IN  Part(1) + Part(2) + Part(3) + Part(4) + Part(5) + Part(6) + Part(7) + Part(8)

Signed(n, w) == IF n < Base ^ w \div 2 THEN n ELSE n - Base ^ w

SizeOf(f, bytes) == f.width + (IF f.kind = "text" THEN NumberAt(bytes, f.width) ELSE 0)

CanRead(f, bytes) == Len(bytes) >= f.width /\ Len(bytes) >= SizeOf(f, bytes)

ValueOf(f, bytes) ==
    CASE f.kind = "number" -> NumberAt(bytes, f.width)
      [] f.kind = "signed" -> Signed(NumberAt(bytes, f.width), f.width)
      [] f.kind = "flag"   -> bytes[1] # 0
      [] f.kind = "text"   -> SubSeq(bytes, f.width + 1, SizeOf(f, bytes))

\* What an absent field holds: the initial value of the member, or cleared.
Default(f) ==
    CASE f.kind \in {"number", "signed"} -> 0
      [] f.kind = "flag" -> FALSE
      [] f.kind = "text" -> <<>>

IsAbsent(r, f) ==
    CASE f.part = "always"           -> FALSE
      [] f.part = "ifAnythingIsLeft" -> r.rest = <<>>
      [] f.part = "ifItCanBeRead"    -> ~ CanRead(f, r.rest)
      [] f.part = "withTheFirst"     -> r.absent

ReadField(r, f) ==
    IF ~ r.ok THEN r
    ELSE IF IsAbsent(r, f) THEN
        [r EXCEPT !.absent = TRUE, !.out = SetField(@, f.name, Default(f))]
    ELSE IF CanRead(f, r.rest) THEN
        [r EXCEPT !.absent = FALSE, !.out = SetField(@, f.name, ValueOf(f, r.rest)),
                  !.rest = Drop(@, SizeOf(f, @))]
    ELSE Fail(r)

\* An entry with a size is read by a reader of its own, which sees nothing else.
ReadSizedEntry(f, r) ==
    LET size == NumberAt(r.rest, 4)
        entry == FoldLeft(ReadField, ByteReader(SubSeq(r.rest, 5, 4 + size)), f.entry)
    IN  IF Len(r.rest) >= 4 /\ Len(r.rest) >= 4 + size /\ entry.ok
        THEN [r EXCEPT !.out = Append(@, entry.out), !.rest = Drop(@, 4 + size)]
        ELSE Fail(r)

ReadInlineEntry(f, r) ==
    LET entry == FoldLeft(ReadField, ByteReader(r.rest), f.entry)
    IN  IF entry.ok
        THEN [r EXCEPT !.out = Append(@, entry.out), !.rest = entry.rest]
        ELSE Fail(r)

ReadList(r, f) ==
    LET ReadEntry(s, i) ==
            CASE ~ s.ok -> s
              [] s.ok /\ f.sized -> ReadSizedEntry(f, s)
              [] s.ok /\ ~ f.sized -> ReadInlineEntry(f, s)
        list == FoldLeft(ReadEntry, ByteReader(Drop(r.rest, 4)),
                         [i \in 1 .. NumberAt(r.rest, 4) |-> i])
    IN  IF r.ok /\ Len(r.rest) >= 4 /\ list.ok
        THEN [r EXCEPT !.out = SetField(@, f.name, list.out), !.rest = list.rest]
        ELSE Fail(r)

\* Bytes that are left at the end are ignored.
Deserialize(layout, bytes) ==
    FoldLeft(LAMBDA r, f : IF f.kind = "list" THEN ReadList(r, f) ELSE ReadField(r, f),
             ByteReader(bytes), layout)
-----------------------------------------------------------------------------
(* What the programs write: the serialize functions, in the order of the source. *)

Verdict == <<Bool("ok"), Str("message")>>

\* A row of the list of characters, written in place.
CharacterSummaryWrites ==
    <<Str("characterId"), Str("name"), Str("raceId"), Str("classId"), U16("level"),
      Str("zoneId")>>

\* Logging in, choosing a character, finding the zone.
AccountWrites ==
    [Ping |-> <<U64("timestampMs")>>,
     Pong |-> <<U64("timestampMs")>>,
     LoginRequest |-> <<Str("username"), Str("password")>>,
     LoginResponse |->
         <<Bool("ok"), Str("message"), U64("sessionToken"), U64("sessionTokenHash")>>,
     CreateAccountRequest |-> <<Str("username"), Str("password")>>,
     CreateAccountResponse |-> Verdict,
     CharacterListRequest |-> <<>>,
     CharacterListResponse |->
         <<Bool("ok"), Str("message"), Inline("characters", CharacterSummaryWrites)>>,
     CreateCharacterRequest |-> <<Str("name"), Str("raceId"), Str("classId")>>,
     CreateCharacterResponse |-> <<Bool("ok"), Str("message"), Str("characterId")>>,
     SelectCharacterRequest |-> <<Str("characterId")>>,
     ZoneConnectInfo |->
         <<Bool("ok"), Str("message"), Str("zoneId"), Str("zoneHost"), U16("zonePort"),
         U64("sessionResumeToken"), Str("characterId")>>,
     SessionResume |-> <<Str("characterId"), U64("sessionResumeToken")>>,
     SessionResumeResponse |->
         <<Bool("ok"), Str("message"), U32("entityId"), I32("tileX"), I32("tileY")>>]

\* Somebody seen on the map, with all that later versions added.
EntityStateWrites ==
    <<U32("entityId"), Str("name"), U8("entityType"), I32("tileX"), I32("tileY"),
      Str("raceId"), Str("classId"), Str("appearanceId"), Str("equippedWeaponItemId"),
      Str("equippedHeadItemId"), Str("equippedChestItemId"), Str("equippedHandsItemId")>>

\* The map and moving about on it.
MapWrites ==
    [ZoneSnapshot |->
         <<Str("zoneId"), Str("zoneName"), Str("tileStyle"), I32("width"), I32("height"),
         Strs("tiles")>>,
     EntitySnapshot |-> <<List("entities", EntityStateWrites)>>,
     MoveIntent |-> <<I32("targetTileX"), I32("targetTileY")>>,
     MoveResult |->
         <<Bool("ok"), Str("message"), U32("entityId"), I32("tileX"), I32("tileY")>>,
     ChatMessage |-> <<U8("channel"), Str("text")>>,
     ChatDeliver |-> <<U8("channel"), Str("senderName"), Str("text")>>,
     UsePortal |-> <<>>,
     UsePortalResult |-> Verdict,
     RequestZoneTiles |-> <<>>,
     ZoneTileGrid |-> <<Str("zoneId"), Strs("tiles")>>]

\* Somebody in a fight.
CombatParticipantWrites ==
    <<U32("combatSlot"), Str("name"), U8("side"), U16("hp"), U16("maxHp"), U16("mana"),
      U16("maxMana"), Bool("isAlive"), Bool("isPlayerControlled"), Bool("isAiCompanion"),
      Str("classId"), Str("raceId"), Str("mobId")>>

\* Fights.
CombatWrites ==
    [CombatStart |->
         <<U32("combatId"), List("participants", CombatParticipantWrites), Numbers("turnOrder"),
         U32("currentTurnIndex"), U32("currentActorSlot"), U32("turnDurationMs")>>,
     CombatUpdate |->
         <<U32("combatId"), U32("currentTurnIndex"), U32("currentActorSlot"),
         U32("turnDurationMs"), List("participants", CombatParticipantWrites)>>,
     CombatEvent |->
         <<U32("combatId"), U8("eventType"), U32("actorSlot"), U32("targetSlot"), I32("value"),
         Str("message"), Str("detail")>>,
     CombatEnd |-> <<U32("combatId"), U8("result"), Str("message")>>,
     SubmitAction |->
         <<U32("combatId"), U8("actionType"), U32("targetCombatSlot"), Str("spellId"),
         Str("abilityId")>>,
     SubmitActionResult |-> Verdict]

\* A line of the skill window.
SkillEntryWrites ==
    <<Str("skillId"), U16("level"), U32("experience"), U16("cap")>>

\* Vital signs, skills, levels.
ProgressWrites ==
    [CharacterVitals |-> <<U16("hp"), U16("maxHp"), U16("mana"), U16("maxMana")>>,
     MeditateResult |->
         <<Bool("ok"), Str("message"), U16("manaGained"), U16("mana"), U16("maxMana")>>,
     SkillGain |-> <<Str("skillId"), U16("oldLevel"), U16("newLevel"), Str("message")>>,
     LevelUp |->
         <<U16("oldLevel"), U16("newLevel"), U32("experienceGranted"), Str("message")>>,
     SkillsSnapshot |->
         <<U16("characterLevel"), U32("characterExperience"), U32("experienceToNextLevel"),
         List("skills", SkillEntryWrites)>>]

\* A stack.
InventoryEntryWrites ==
    <<Str("itemId"), U16("quantity")>>

\* A worn item.
EquipmentEntryWrites ==
    <<Str("slot"), Str("itemId")>>

\* An item on sale.
MerchantStockEntryWrites ==
    <<Str("itemId"), U16("quantity"), U32("buyPrice"), U32("sellPrice")>>

\* Possessions and trade.
TradeWrites ==
    [InventorySnapshot |->
         <<U32("gold"), List("items", InventoryEntryWrites), List("equipment",
         EquipmentEntryWrites)>>,
     EquipItemRequest |-> <<Str("itemId")>>,
     EquipItemResult |-> Verdict,
     UnequipItemRequest |-> <<Str("slot")>>,
     UnequipItemResult |-> Verdict,
     NpcInteractRequest |-> <<U32("npcEntityId")>>,
     MerchantOpen |->
         <<U32("npcEntityId"), Str("npcName"), List("stock", MerchantStockEntryWrites),
         Strs("sellItemIds")>>,
     MerchantBuyRequest |-> <<U32("npcEntityId"), Str("itemId"), U16("quantity")>>,
     MerchantBuyResult |->
         <<Bool("ok"), Str("message"), Bool("stockUpdated"), Str("stockItemId"),
         U16("stockQuantity")>>,
     MerchantSellRequest |-> <<U32("npcEntityId"), Str("itemId"), U16("quantity")>>,
     MerchantSellResult |-> Verdict,
     NpcDialogOpen |-> <<U32("npcEntityId"), Str("npcName"), Strs("lines")>>]

\* Leaving, typed commands.
SessionWrites ==
    [SessionEnd |-> <<>>,
     PlayerCommandRequest |-> <<Str("command"), Strs("args")>>,
     PlayerCommandResult |-> <<Bool("ok"), Str("message"), I32("tileX"), I32("tileY")>>,
     DebugCommandRequest |-> <<U16("command"), Strs("args")>>,
     DebugCommandResponse |-> Verdict]

\* Between zone servers and WorldLogin.
ServerWrites ==
    [Ping |-> <<U64("timestampMs")>>,
     Pong |-> <<U64("timestampMs")>>,
     ZoneRegister |->
         <<Str("zoneId"), Str("listenHost"), U16("listenPort"), U32("capacity"),
         Str("version")>>,
     ZoneRegisterAck |-> <<Bool("accepted"), Str("message")>>,
     PlayerEnterPrepare |->
         <<Str("characterId"), U64("accountId"), Str("zoneId"), U64("sessionResumeToken")>>,
     PlayerEnterReady |-> <<Str("characterId"), Bool("ok"), Str("message")>>,
     LoadCharacterRequest |-> <<Str("characterId")>>,
     LoadCharacterResponse |->
         <<Bool("ok"), Str("message"), Str("characterId"), Str("name"), Str("raceId"),
         Str("classId"), U16("level"), Str("zoneId"), F32("posX"), F32("posY"),
         Str("stateJson")>>,
     ZoneTransferRequest |->
         <<Str("characterId"), Str("sourceZoneId"), Str("destZoneId"), I32("destTileX"),
         I32("destTileY"), U64("sessionResumeToken")>>,
     ZoneTransferAuthorize |-> <<Str("characterId")>>,
     ZoneTransferComplete |->
         <<Str("characterId"), Str("zoneId"), F32("posX"), F32("posY")>>,
     PlayerDisconnect |-> <<Str("characterId")>>,
     ZoneConnectForward |->
         <<Bool("ok"), Str("message"), Str("zoneId"), Str("zoneHost"), U16("zonePort"),
         U64("sessionResumeToken"), Str("characterId")>>]

-----------------------------------------------------------------------------
(* What the programs read: the deserialize functions, in the order of the source.
   Each is written down from its own code, not from the function that writes. *)

\* Logging in and choosing a character.
AccountReads ==
    [Ping |-> <<U64("timestampMs")>>,
     Pong |-> <<U64("timestampMs")>>,
     LoginRequest |-> <<Str("username"), Str("password")>>,
     LoginResponse |->
         <<Bool("ok"), Str("message"), U64("sessionToken"), U64("sessionTokenHash")>>,
     CreateAccountRequest |-> <<Str("username"), Str("password")>>,
     CreateAccountResponse |-> Verdict,
     CharacterListRequest |-> <<>>,
     CharacterListResponse |->
         <<Bool("ok"), Str("message"), Inline("characters", <<Str("characterId"), Str("name"),
         Str("raceId"), Str("classId"), U16("level"), Str("zoneId")>>)>>,
     CreateCharacterRequest |-> <<Str("name"), Str("raceId"), Str("classId")>>,
     CreateCharacterResponse |-> <<Bool("ok"), Str("message"), Str("characterId")>>]

\* Finding the zone and entering it.  An old zone sent no entity.
HandoverReads ==
    [SelectCharacterRequest |-> <<Str("characterId")>>,
     ZoneConnectInfo |->
         <<Bool("ok"), Str("message"), Str("zoneId"), Str("zoneHost"), U16("zonePort"),
         U64("sessionResumeToken"), Str("characterId")>>,
     SessionResume |-> <<Str("characterId"), U64("sessionResumeToken")>>,
     SessionResumeResponse |->
         Verdict \o Lenient(<<U32("entityId"), I32("tileX"), I32("tileY")>>),
     ZoneSnapshot |->
         <<Str("zoneId"), Str("zoneName"), Str("tileStyle"), I32("width"), I32("height"),
         Strs("tiles")>>]

\* Somebody on the map: what later versions added may be absent.
EntityStateReads ==
    <<U32("entityId"), Str("name"), U8("entityType"), I32("tileX"), I32("tileY")>>
    \o Later(<<Str("raceId"), Str("classId"), Str("appearanceId")>>)
    \o Later(<<Str("equippedWeaponItemId")>>)
    \o Later(<<Str("equippedHeadItemId"), Str("equippedChestItemId"), Str("equippedHandsItemId")>>)

\* The map and moving about on it.
MapReads ==
    [EntitySnapshot |-> <<List("entities", EntityStateReads)>>,
     MoveIntent |-> <<I32("targetTileX"), I32("targetTileY")>>,
     MoveResult |->
         <<Bool("ok"), Str("message"), U32("entityId"), I32("tileX"), I32("tileY")>>,
     ChatMessage |-> <<U8("channel"), Str("text")>>,
     ChatDeliver |-> <<U8("channel"), Str("senderName"), Str("text")>>,
     UsePortal |-> <<>>,
     UsePortalResult |-> Verdict,
     RequestZoneTiles |-> <<>>]

\* Slip: the maxima are read before the current values.
CombatParticipantReads_Swapped ==
    <<U32("combatSlot"), Str("name"), U8("side"), U16("maxHp"), U16("hp"), U16("mana"),
      U16("maxMana"), Bool("isAlive"), Bool("isPlayerControlled"), Bool("isAiCompanion"),
      Str("classId"), Str("raceId"), Str("mobId")>>

\* Somebody in a fight.
CombatParticipantReads ==
    <<U32("combatSlot"), Str("name"), U8("side"), U16("hp"), U16("maxHp"), U16("mana"),
      U16("maxMana"), Bool("isAlive"), Bool("isPlayerControlled"), Bool("isAiCompanion"),
      Str("classId"), Str("raceId"), Str("mobId")>>

\* Fights.
CombatReads ==
    [CombatStart |->
         <<U32("combatId"), List("participants", CombatParticipantReads), Numbers("turnOrder"),
         U32("currentTurnIndex"), U32("currentActorSlot"), U32("turnDurationMs")>>,
     CombatUpdate |->
         <<U32("combatId"), U32("currentTurnIndex"), U32("currentActorSlot"),
         U32("turnDurationMs"), List("participants", CombatParticipantReads)>>,
     CombatEvent |->
         <<U32("combatId"), U8("eventType"), U32("actorSlot"), U32("targetSlot"), I32("value"),
         Str("message"), Str("detail")>>,
     CombatEnd |-> <<U32("combatId"), U8("result"), Str("message")>>,
     SubmitAction |->
         <<U32("combatId"), U8("actionType"), U32("targetCombatSlot"), Str("spellId"),
         Str("abilityId")>>,
     SubmitActionResult |-> Verdict]

\* Vital signs, skills, levels.
ProgressReads ==
    [CharacterVitals |-> <<U16("hp"), U16("maxHp"), U16("mana"), U16("maxMana")>>,
     MeditateResult |->
         <<Bool("ok"), Str("message"), U16("manaGained"), U16("mana"), U16("maxMana")>>,
     SkillGain |-> <<Str("skillId"), U16("oldLevel"), U16("newLevel"), Str("message")>>,
     LevelUp |->
         <<U16("oldLevel"), U16("newLevel"), U32("experienceGranted"), Str("message")>>,
     SkillsSnapshot |->
         <<U16("characterLevel"), U32("characterExperience"), U32("experienceToNextLevel"),
         List("skills", <<Str("skillId"), U16("level"), U32("experience"), U16("cap")>>)>>]

\* Possessions.
ItemReads ==
    [InventorySnapshot |->
         <<U32("gold"), List("items", <<Str("itemId"), U16("quantity")>>), List("equipment",
         <<Str("slot"), Str("itemId")>>)>>,
     EquipItemRequest |-> <<Str("itemId")>>,
     EquipItemResult |-> Verdict,
     UnequipItemRequest |-> <<Str("slot")>>,
     UnequipItemResult |-> Verdict]

\* Trade.  The stock after a purchase is a later addition.
MerchantReads ==
    [NpcInteractRequest |-> <<U32("npcEntityId")>>,
     MerchantOpen |->
         <<U32("npcEntityId"), Str("npcName"), List("stock", <<Str("itemId"), U16("quantity"),
         U32("buyPrice"), U32("sellPrice")>>), Strs("sellItemIds")>>,
     MerchantBuyRequest |-> <<U32("npcEntityId"), Str("itemId"), U16("quantity")>>,
     MerchantBuyResult |->
         Verdict \o Later(<<Bool("stockUpdated"), Str("stockItemId"), U16("stockQuantity")>>),
     MerchantSellRequest |-> <<U32("npcEntityId"), Str("itemId"), U16("quantity")>>,
     MerchantSellResult |-> Verdict]

\* Dialogs, leaving, typed commands, tiles.
SessionReads ==
    [NpcDialogOpen |-> <<U32("npcEntityId"), Str("npcName"), Strs("lines")>>,
     SessionEnd |-> <<>>,
     PlayerCommandRequest |-> <<Str("command"), Strs("args")>>,
     PlayerCommandResult |-> <<Bool("ok"), Str("message"), I32("tileX"), I32("tileY")>>,
     ZoneTileGrid |-> <<Str("zoneId"), Strs("tiles")>>,
     DebugCommandRequest |-> <<U16("command"), Strs("args")>>,
     DebugCommandResponse |-> Verdict]

\* Between zone servers and WorldLogin: registration, entry, loads.
ServerReads ==
    [Ping |-> <<U64("timestampMs")>>,
     Pong |-> <<U64("timestampMs")>>,
     ZoneRegister |->
         <<Str("zoneId"), Str("listenHost"), U16("listenPort"), U32("capacity"),
         Str("version")>>,
     ZoneRegisterAck |-> <<Bool("accepted"), Str("message")>>,
     PlayerEnterPrepare |->
         <<Str("characterId"), U64("accountId"), Str("zoneId"), U64("sessionResumeToken")>>,
     PlayerEnterReady |-> <<Str("characterId"), Bool("ok"), Str("message")>>,
     LoadCharacterRequest |-> <<Str("characterId")>>,
     LoadCharacterResponse |->
         <<Bool("ok"), Str("message"), Str("characterId"), Str("name"), Str("raceId"),
         Str("classId"), U16("level"), Str("zoneId"), F32("posX"), F32("posY"),
         Str("stateJson")>>,
     ZoneTransferRequest |->
         <<Str("characterId"), Str("sourceZoneId"), Str("destZoneId"), I32("destTileX"),
         I32("destTileY"), U64("sessionResumeToken")>>]

\* Between zone servers and WorldLogin: transfers.
TransferReads ==
    [ZoneTransferAuthorize |-> <<Str("characterId")>>,
     ZoneTransferComplete |->
         <<Str("characterId"), Str("zoneId"), F32("posX"), F32("posY")>>,
     PlayerDisconnect |-> <<Str("characterId")>>,
     ZoneConnectForward |->
         <<Bool("ok"), Str("message"), Str("zoneId"), Str("zoneHost"), U16("zonePort"),
         U64("sessionResumeToken"), Str("characterId")>>,
     DebugCommandRequest |-> <<U16("command"), Strs("args")>>,
     DebugCommandResponse |-> Verdict]

-----------------------------------------------------------------------------
(* Packets and their headers *)

\* The numbers of the packets between clients and servers.  MeditateRequest has no
\* payload, no serializer and no handler of its own.
ClientPacketType ==
    [Ping |-> 1, Pong |-> 2, LoginRequest |-> 10, LoginResponse |-> 11,
     CreateAccountRequest |-> 12, CreateAccountResponse |-> 13, CharacterListRequest |-> 20,
     CharacterListResponse |-> 21, CreateCharacterRequest |-> 22,
     CreateCharacterResponse |-> 23, SelectCharacterRequest |-> 24, ZoneConnectInfo |-> 25,
     SessionResume |-> 30, SessionResumeResponse |-> 31, ZoneSnapshot |-> 32,
     EntitySnapshot |-> 33, MoveIntent |-> 34, MoveResult |-> 35, ChatMessage |-> 36,
     ChatDeliver |-> 37, UsePortal |-> 38, UsePortalResult |-> 39, RequestZoneTiles |-> 40,
     ZoneTileGrid |-> 41, CombatStart |-> 50, CombatUpdate |-> 51, CombatEvent |-> 52,
     CombatEnd |-> 53, SubmitAction |-> 54, SubmitActionResult |-> 55,
     CharacterVitals |-> 56, SkillGain |-> 57, MeditateResult |-> 59,
     InventorySnapshot |-> 60, EquipItemRequest |-> 61, EquipItemResult |-> 62,
     UnequipItemRequest |-> 63, UnequipItemResult |-> 64, NpcInteractRequest |-> 65,
     MerchantOpen |-> 66, MerchantBuyRequest |-> 67, MerchantBuyResult |-> 68,
     MerchantSellRequest |-> 69, MerchantSellResult |-> 70, NpcDialogOpen |-> 71,
     SessionEnd |-> 72, LevelUp |-> 73, SkillsSnapshot |-> 74, PlayerCommandRequest |-> 75,
     PlayerCommandResult |-> 76, DebugCommandRequest |-> 100, DebugCommandResponse |-> 101]

\* The numbers of the packets between servers, a space of its own.
ServerPacketType ==
    [Ping |-> 1, Pong |-> 2, ZoneRegister |-> 10, ZoneRegisterAck |-> 11,
     PlayerEnterPrepare |-> 20, PlayerEnterReady |-> 21, LoadCharacterRequest |-> 30,
     LoadCharacterResponse |-> 31, ZoneTransferRequest |-> 40, ZoneTransferAuthorize |-> 41,
     ZoneTransferComplete |-> 42, PlayerDisconnect |-> 43, ZoneConnectForward |-> 44,
     DebugCommandRequest |-> 100, DebugCommandResponse |-> 101]

\* The two kinds of connection: a client with a server, a zone server with WorldLogin.
Spaces == {"client", "server"}

TypeNumber(space) == IF space = "client" THEN ClientPacketType ELSE ServerPacketType

ClientWrites ==
    AccountWrites @@ MapWrites @@ CombatWrites @@ ProgressWrites @@ TradeWrites @@ SessionWrites

ClientReads ==
    AccountReads @@ HandoverReads @@ MapReads @@ CombatReads @@ ProgressReads @@ ItemReads
    @@ MerchantReads @@ SessionReads

LinkReads == ServerReads @@ TransferReads

Writes(space) == IF space = "client" THEN ClientWrites ELSE ServerWrites

Reads(space) == IF space = "client" THEN ClientReads ELSE LinkReads

HeaderSize == 24

\* The header as it lies in memory, packed, and the payload behind it: encodePacket.
\* The magic number stands for kPacketMagic, version for the sender's kProtocolVersion.
EncodePacket(type, sequenceId, version, payload) ==
    NumberBytes(Base, 4) \o NumberBytes(version, 2) \o NumberBytes(type, 2)
    \o NumberBytes(sequenceId, 4) \o NumberBytes(Len(payload), 4) \o NumberBytes(0, 8)
    \o payload

\* readPacketHeader, for as many bytes as a header has.
DecodeHeader(bytes) ==
    [magic |-> NumberAt(bytes, 4), protocolVersion |-> NumberAt(Drop(bytes, 4), 2),
     packetType |-> NumberAt(Drop(bytes, 6), 2), sequenceId |-> NumberAt(Drop(bytes, 8), 4),
     payloadLength |-> NumberAt(Drop(bytes, 12), 4)]

\* PacketHeader::isValid
IsValid(header, version, maxPayload) ==
    /\ header.magic = Base
    /\ header.protocolVersion = version
    /\ header.payloadLength <= maxPayload

\* What every deserializer of a space makes of a packet: each looks at the type
\* first, so that at most one should accept it.
Understood(space, header, payload) ==
    LET Of(kind) == Deserialize(Reads(space)[kind], payload)
    IN  { [kind |-> k, fields |-> Of(k).out] :
            k \in { l \in DOMAIN Reads(space) :
                      header.packetType = TypeNumber(space)[l] /\ Of(l).ok } }
=============================================================================
