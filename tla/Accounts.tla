------------------------------ MODULE Accounts ------------------------------
(***************************************************************************)
(* Accounts, sessions and characters: what WorldLogin answers a client     *)
(* before it is in a zone (handleClientPacket of server/world_login/       *)
(* WorldLoginServer.cpp), the tables it keeps for that                     *)
(* (shared/src/persistence/Database.cpp) and the login script of the       *)
(* client (performLoginAndHandoff, client/src/main.cpp), which sends the   *)
(* requests one by one, waits for each answer as long as a deadline allows *)
(* and then goes on.                                                       *)
(*                                                                         *)
(* A connection is one run of the script.  WorldLogin is one thread: a     *)
(* step handles one packet of one connection.  The zone a character is     *)
(* prepared in, and what it saves, are the other side of this module: see  *)
(* ZoneHandoff.  A session hash is a number that is never issued twice; a  *)
(* password stands for its salted hash.                                    *)
(***************************************************************************)
EXTENDS Integers, Sequences, FiniteSets

CONSTANTS
    Clients,
    Wishes,         \* client -> what its user may type into the login form
    Malformed,      \* usernames, passwords and names that validation refuses
    Classes,        \* race -> allowedClasses of data/races.json
    StartZone,      \* race -> startZone of data/races.json
    Zones,
    Banned,         \* accounts that exist, with is_banned set by hand
    None,           \* an absent row, an empty answer
    CharacterLimit, \* 8 in the code
    SessionLife,    \* 24 hours in the code
    MaxAttempts,    \* bound of this model: client -> runs of its script
    MaxClock,       \* bound of this model: how far time goes
    MaxProgress,    \* bound of this model: how often a zone saves a character
    MaxTroubles     \* bound of this model: deaths of WorldLogin, and deadlines that
                    \* pass while the answer is under way

Wish      == UNION {Wishes[k] : k \in Clients}
Users     == {w.user : w \in Wish}
Passwords == {w.password : w \in Wish}
Names     == {w.name : w \in Wish}

ASSUME WishesAssumption ==
    /\ \A w \in Wish : /\ DOMAIN w = {"user", "password", "name", "race", "class"}
                       /\ w.race \in DOMAIN StartZone => StartZone[w.race] \in Zones
    /\ DOMAIN Classes = DOMAIN StartZone
    /\ None \notin Users \cup Zones
ASSUME LimitsAssumption ==
    /\ CharacterLimit \in Nat \ {0} /\ SessionLife \in Nat \ {0}
    /\ MaxAttempts \in [Clients -> Nat] /\ MaxClock \in Nat /\ MaxProgress \in Nat
    /\ MaxTroubles \in Nat

VARIABLES
    accounts,       \* username -> row of accounts
    sessions,       \* hash -> row of sessions
    issued,         \* hashes issued so far
    characters,     \* account and name -> row of characters
    clock,
    pendingHandoffs,    \* character -> connection and session hash
    prepares,       \* PlayerEnterPrepare packets a zone has not answered
    requests, answers,  \* connection -> packets under way
    dead,           \* connections that WorldLogin closed by dying
    client,         \* client -> its run of the script
    troubles        \* how much of that bound is used up

tables == <<accounts, sessions, issued, characters>>
wire   == <<requests, answers, dead>>
vars   == <<tables, clock, pendingHandoffs, prepares, wire, client, troubles>>

Connections  == UNION {{k} \X (1 .. MaxAttempts[k]) : k \in Clients}
CharacterIds == Users \X Names
Hashes       == 1 .. issued

\* "login", "register", ...: the answer the script waits for.
Steps   == {"idle", "login", "register", "relogin", "create", "list", "select", "in", "failed"}
Waiting == Steps \ {"idle", "in", "failed"}

\* The rows of the tables, and what WorldLogin remembers of a selected character.
Account        == [password : Passwords \cup {None}, banned : BOOLEAN]
Session        == [account : Users, expires : 0 .. MaxClock + SessionLife]
Character      == [race : DOMAIN Classes, class : UNION {Classes[race] : race \in DOMAIN Classes},
                   zone : Zones, progress : 0 .. MaxProgress]
PendingHandoff == [connection : Connections, hash : Nat]

\* The packets of the script, and the answers to them.
Request ==
    [type : {"LoginRequest", "CreateAccountRequest"}, user : Users, password : Passwords]
    \cup [type : {"CreateCharacterRequest"}, name : Names, race : {w.race : w \in Wish},
          class : {w.class : w \in Wish}, hash : Nat]
    \cup [type : {"CharacterListRequest"}, hash : Nat]
    \cup [type : {"SelectCharacterRequest"}, character : CharacterIds, hash : Nat]
Response ==
    [type : {"LoginResponse", "CharacterListResponse", "CreateCharacterResponse",
             "ZoneConnectInfo"}, ok : {FALSE}]
    \cup [type : {"CreateAccountResponse"}, ok : BOOLEAN]
    \cup [type : {"LoginResponse"}, ok : {TRUE}, hash : Nat]
    \cup [type : {"CharacterListResponse"}, ok : {TRUE}, characters : SUBSET CharacterIds]
    \cup [type : {"CreateCharacterResponse"}, ok : {TRUE}, character : CharacterIds]
    \cup [type : {"ZoneConnectInfo"}, ok : {TRUE}, character : CharacterIds, token : Nat,
          zone : Zones]

\* One run of the script: where it is and what it remembers.
Run == [step : Steps, attempt : Nat, wish : {None} \cup Wish, hash : Nat,
        character : {None} \cup CharacterIds, refused : Steps, troubled : BOOLEAN]

ASSUME NoneAssumption ==
    None \notin Account \cup Session \cup Character \cup PendingHandoff \cup CharacterIds \cup Response

Conn(k) == <<k, client[k].attempt>>

\* Whether the connection still has a reader.
Open(c) == client[c[1]].attempt = c[2] /\ client[c[1]].step \in Waiting /\ c \notin dead

WellFormed(text) == text \notin Malformed
-----------------------------------------------------------------------------
(* The tables *)

Live(hash) == hash \in Hashes /\ sessions[hash] # None /\ sessions[hash].expires > clock

CharactersOf(user) == {id \in CharacterIds : id[1] = user /\ characters[id] # None}

\* Slip: a login adds its day to the sessions the account has.
IssueSession_Extends(user) ==
    [h \in 1 .. issued + 1 |->
        IF h = issued + 1 THEN [account |-> user, expires |-> clock + SessionLife]
        ELSE IF sessions[h] # None /\ sessions[h].account = user
        THEN [sessions[h] EXCEPT !.expires = @ + SessionLife]
        ELSE sessions[h]]

\* deleteExpiredSessions and createSession: the table after issueSession.
IssueSession(user) ==
    [h \in 1 .. issued + 1 |->
        IF h = issued + 1 THEN [account |-> user, expires |-> clock + SessionLife]
        ELSE IF sessions[h] # None /\ sessions[h].expires <= clock THEN None
        ELSE sessions[h]]

\* validateCharacterCreate.
MayBeCreated(r) ==
    /\ WellFormed(r.name)
    /\ r.race \in DOMAIN Classes
    /\ r.class \in Classes[r.race]

\* createCharacter: the INSERT fails on an id that exists.
CreateCharacter(user, r) ==
    IF characters[<<user, r.name>>] # None THEN characters
    ELSE [characters EXCEPT ![<<user, r.name>>] =
             [race |-> r.race, class |-> r.class, zone |-> StartZone[r.race], progress |-> 0]]
-----------------------------------------------------------------------------
(* WorldLogin, one packet at a time *)

\* The answer to a packet; nobody reads the answers of a closed connection.
Answer(c, packet) == answers' = IF Open(c) THEN [answers EXCEPT ![c] = Append(@, packet)]
                                ELSE answers

Failure(type) == [type |-> type, ok |-> FALSE]

HandleCreateAccount(c, r) ==
    LET created == WellFormed(r.user) /\ WellFormed(r.password) /\ accounts[r.user] = None
    IN  /\ r.type = "CreateAccountRequest"
        /\ accounts' = IF created
                       THEN [accounts EXCEPT ![r.user] = [password |-> r.password, banned |-> FALSE]]
                       ELSE accounts
        /\ Answer(c, [type |-> "CreateAccountResponse", ok |-> created])
        /\ UNCHANGED <<sessions, issued, characters, pendingHandoffs, prepares>>

\* Slip: one session for each account.
HandleLogin_OneSession(c, r) ==
    LET accepted == /\ accounts[r.user] # None
                    /\ ~ accounts[r.user].banned
                    /\ accounts[r.user].password = r.password
                    /\ \A h \in Hashes : Live(h) => sessions[h].account # r.user
    IN  /\ r.type = "LoginRequest"
        /\ IF accepted
           THEN /\ sessions' = IssueSession(r.user)
                /\ issued' = issued + 1
                /\ Answer(c, [type |-> "LoginResponse", ok |-> TRUE, hash |-> issued + 1])
           ELSE /\ Answer(c, Failure("LoginResponse"))
                /\ UNCHANGED <<sessions, issued>>
        /\ UNCHANGED <<accounts, characters, pendingHandoffs, prepares>>

\* Every login gets a session of its own.
HandleLogin(c, r) ==
    LET accepted == /\ accounts[r.user] # None
                    /\ ~ accounts[r.user].banned
                    /\ accounts[r.user].password = r.password
    IN  /\ r.type = "LoginRequest"
        /\ IF accepted
           THEN /\ sessions' = IssueSession(r.user)
                /\ issued' = issued + 1
                /\ Answer(c, [type |-> "LoginResponse", ok |-> TRUE, hash |-> issued + 1])
           ELSE /\ Answer(c, Failure("LoginResponse"))
                /\ UNCHANGED <<sessions, issued>>
        /\ UNCHANGED <<accounts, characters, pendingHandoffs, prepares>>

HandleCharacterList(c, r) ==
    /\ r.type = "CharacterListRequest"
    /\ Answer(c, IF Live(r.hash)
                 THEN [type |-> "CharacterListResponse", ok |-> TRUE,
                       characters |-> CharactersOf(sessions[r.hash].account)]
                 ELSE Failure("CharacterListResponse"))
    /\ UNCHANGED <<tables, pendingHandoffs, prepares>>

\* Slip: one character too many.
HasRoom_OffByOne(user) == Cardinality(CharactersOf(user)) <= CharacterLimit

HasRoom(user) == Cardinality(CharactersOf(user)) < CharacterLimit

\* A name the account has already is answered with that character.
HandleCreateCharacter(c, r) ==
    LET user    == sessions[r.hash].account
        created == Live(r.hash) /\ HasRoom(user) /\ MayBeCreated(r)
    IN  /\ r.type = "CreateCharacterRequest"
        /\ characters' = IF created THEN CreateCharacter(user, r) ELSE characters
        /\ Answer(c, IF created
                     THEN [type |-> "CreateCharacterResponse", ok |-> TRUE,
                           character |-> <<user, r.name>>]
                     ELSE Failure("CreateCharacterResponse"))
        /\ UNCHANGED <<accounts, sessions, issued, pendingHandoffs, prepares>>

\* Only a character of the account; whether its zone is registered is up to the zone.
HandleSelectCharacter(c, r) ==
    LET found == /\ Live(r.hash)
                 /\ r.character \in CharactersOf(sessions[r.hash].account)
    IN  /\ r.type = "SelectCharacterRequest"
        /\ \/ /\ Answer(c, Failure("ZoneConnectInfo"))
              /\ UNCHANGED <<pendingHandoffs, prepares>>
           \/ /\ found
              /\ pendingHandoffs' = [pendingHandoffs EXCEPT ![r.character] =
                                         [connection |-> c, hash |-> r.hash]]
              /\ prepares' = Append(prepares, r.character)
              /\ UNCHANGED answers
        /\ UNCHANGED tables

Handle(c) ==
    /\ requests[c] # <<>>
    /\ requests' = [requests EXCEPT ![c] = Tail(@)]
    /\ LET r == Head(requests[c])
       IN  \/ HandleCreateAccount(c, r)
           \/ HandleLogin(c, r)
           \/ HandleCharacterList(c, r)
           \/ HandleCreateCharacter(c, r)
           \/ HandleSelectCharacter(c, r)
    /\ UNCHANGED <<clock, dead, client, troubles>>

\* A zone has prepared a character, or could not: the client that asked last is told.
PlayerEnterReady ==
    LET id == Head(prepares)
        handoff == pendingHandoffs[id]
    IN  /\ prepares # <<>>
        /\ prepares' = Tail(prepares)
        /\ IF handoff = None THEN UNCHANGED <<pendingHandoffs, answers>>
           ELSE /\ pendingHandoffs' = [pendingHandoffs EXCEPT ![id] = None]
                /\ \/ Answer(handoff.connection, Failure("ZoneConnectInfo"))
                   \/ /\ characters[id] # None
                      /\ Answer(handoff.connection,
                                [type |-> "ZoneConnectInfo", ok |-> TRUE, character |-> id,
                                 token |-> handoff.hash, zone |-> characters[id].zone])
        /\ UNCHANGED <<tables, clock, requests, dead, client, troubles>>

\* WorldLogin dies and comes back: the tables are all that is left.
Restart ==
    /\ troubles < MaxTroubles
    /\ troubles' = troubles + 1
    /\ pendingHandoffs' = [id \in CharacterIds |-> None]
    /\ prepares' = <<>>
    /\ requests' = [c \in Connections |-> <<>>]
    /\ answers' = [c \in Connections |-> <<>>]
    /\ dead' = dead \cup {c \in Connections : c[2] <= client[c[1]].attempt}
    /\ UNCHANGED <<tables, clock, client>>
-----------------------------------------------------------------------------
(* The login script of a client *)

\* The client as it goes on, or fails: an unreadable answer is remembered.
Told(k, packet) == [client[k] EXCEPT !.troubled = @ \/ packet = None]

Fail(k, me) ==
    /\ client' = [client EXCEPT ![k] = [me EXCEPT !.step = "failed", !.refused = me.step]]
    /\ UNCHANGED requests

\* Goes on to a step with a request; the send fails when WorldLogin has died.
Send(k, me, step, packet) ==
    IF Conn(k) \in dead THEN Fail(k, [me EXCEPT !.troubled = TRUE])
    ELSE /\ client' = [client EXCEPT ![k] = [me EXCEPT !.step = step]]
         /\ requests' = [requests EXCEPT ![Conn(k)] = Append(@, packet)]

LoginRequest(w) == [type |-> "LoginRequest", user |-> w.user, password |-> w.password]

SendLogin(k, me, step) == Send(k, me, step, LoginRequest(me.wish))

Register(k, me) ==
    Send(k, me, "register", [type |-> "CreateAccountRequest", user |-> me.wish.user,
                             password |-> me.wish.password])

Create(k, me) ==
    Send(k, me, "create", [type |-> "CreateCharacterRequest", name |-> me.wish.name,
                           race |-> me.wish.race, class |-> me.wish.class, hash |-> me.hash])

List(k, me) ==
    Send(k, me, "list", [type |-> "CharacterListRequest", hash |-> me.hash])

Select(k, me, character) ==
    Send(k, [me EXCEPT !.character = character], "select",
         [type |-> "SelectCharacterRequest", character |-> character, hash |-> me.hash])

\* Which answer the step waits for, and whether this is one that grants it.
Grants(packet, step) ==
    LET type == CASE step \in {"login", "relogin"} -> "LoginResponse"
                  [] step = "create" -> "CreateCharacterResponse"
                  [] step = "list" -> "CharacterListResponse"
                  [] step = "select" -> "ZoneConnectInfo"
    IN  packet # None /\ packet.type = type /\ packet.ok

\* Slip: any character of the list will do.
Listed_Any(packet, name) == packet.characters

Listed(packet, name) == {id \in packet.characters : id[2] = name}

\* What the script makes of an answer; None is one it cannot read.
GoOn(k, packet) ==
    LET me      == Told(k, packet)
        granted == Grants(packet, me.step)
    IN  \/ /\ me.step \in {"login", "relogin"}
           /\ granted
           /\ Create(k, [me EXCEPT !.hash = packet.hash])
        \/ /\ me.step = "login"
           /\ ~ granted
           /\ Register(k, me)
        \/ /\ me.step = "register"
           /\ SendLogin(k, me, "relogin")
        \/ /\ me.step = "create"
           /\ granted
           /\ Select(k, me, packet.character)
        \/ /\ me.step = "create"
           /\ ~ granted
           /\ List(k, me)
        \/ /\ me.step = "list"
           /\ granted
           /\ \E id \in Listed(packet, me.wish.name) : Select(k, me, id)
        \/ /\ me.step = "select"
           /\ granted
           /\ client' = [client EXCEPT ![k] = [me EXCEPT !.step = "in", !.hash = packet.token,
                                                         !.character = packet.character]]
           /\ UNCHANGED requests
        \/ /\ me.step \in {"relogin", "list", "select"}
           /\ granted => me.step = "list" /\ Listed(packet, me.wish.name) = {}
           /\ Fail(k, me)

\* The answers left to a connection, none when the script has closed it.
Left(k, rest) ==
    answers' = [answers EXCEPT ![Conn(k)] = IF client'[k].step \in Waiting THEN rest ELSE <<>>]

\* The user presses Enter World.
EnterWorld(k, wish) ==
    /\ client[k].step \in {"idle", "failed"}
    /\ client[k].attempt < MaxAttempts[k]
    /\ wish \in Wishes[k]
    /\ client' = [client EXCEPT ![k] =
                      [step |-> "login", attempt |-> client[k].attempt + 1, wish |-> wish,
                       hash |-> 0, character |-> None, refused |-> "idle", troubled |-> FALSE]]
    /\ requests' = [requests EXCEPT ![<<k, client[k].attempt + 1>>] = <<LoginRequest(wish)>>]
    /\ UNCHANGED <<tables, clock, pendingHandoffs, prepares, answers, dead, troubles>>

\* readPacket returns the next packet, whatever it answers.
Read(k) ==
    /\ client[k].step \in Waiting
    /\ answers[Conn(k)] # <<>>
    /\ GoOn(k, Head(answers[Conn(k)]))
    /\ Left(k, Tail(answers[Conn(k)]))
    /\ UNCHANGED <<tables, clock, pendingHandoffs, prepares, dead, troubles>>

\* An answer to the script is under way.
Due(k) == \/ requests[Conn(k)] # <<>>
          \/ answers[Conn(k)] # <<>>
          \/ \E id \in CharacterIds : /\ pendingHandoffs[id] # None
                                      /\ pendingHandoffs[id].connection = Conn(k)

Deadline(k) ==
    /\ client[k].step \in Waiting
    /\ Due(k) => troubles < MaxTroubles
    /\ troubles' = IF Due(k) THEN troubles + 1 ELSE troubles

\* Slip: the script waits for the zone without a deadline.
Silence_WaitsOn(k) ==
    /\ Deadline(k)
    /\ client[k].step # "select"
    /\ answers[Conn(k)] = <<>>
    /\ GoOn(k, None)
    /\ Left(k, <<>>)
    /\ UNCHANGED <<tables, clock, pendingHandoffs, prepares, dead>>

\* The deadline passes: a header that was never filled in counts as valid, so that
\* an empty packet of type 0 is returned, which no step can read.
Silence(k) ==
    /\ Deadline(k)
    /\ answers[Conn(k)] = <<>>
    /\ GoOn(k, None)
    /\ Left(k, <<>>)
    /\ UNCHANGED <<tables, clock, pendingHandoffs, prepares, dead>>

\* The deadline passes in the middle of an answer. That ends the script, but for the
\* answer nobody looks at; what is left of it will be taken for the next one.
HalfAnAnswer(k) ==
    LET me == [client[k] EXCEPT !.troubled = TRUE]
    IN  /\ Deadline(k)
        /\ answers[Conn(k)] # <<>>
        /\ IF me.step = "register" THEN SendLogin(k, me, "relogin") ELSE Fail(k, me)
        /\ Left(k, answers[Conn(k)])
        /\ UNCHANGED <<tables, clock, pendingHandoffs, prepares, dead>>

Quit(k) ==
    /\ client[k].step = "in"
    /\ client' = [client EXCEPT ![k].step = "idle"]
    /\ UNCHANGED <<tables, clock, pendingHandoffs, prepares, wire, troubles>>
-----------------------------------------------------------------------------
(* The zones, and time *)

\* updateCharacterState and updateCharacterLocation: an UPDATE of the row that is there.
ZoneSaves(id, zone) ==
    /\ \E k \in Clients : client[k].step = "in" /\ client[k].character = id
    /\ characters[id] # None
    /\ characters[id].progress < MaxProgress
    /\ characters' = [characters EXCEPT ![id].progress = @ + 1, ![id].zone = zone]
    /\ UNCHANGED <<accounts, sessions, issued, clock, pendingHandoffs, prepares, wire,
                   client, troubles>>

Tick ==
    /\ clock < MaxClock
    /\ clock' = clock + 1
    /\ UNCHANGED <<tables, pendingHandoffs, prepares, wire, client, troubles>>

Nobody == [step |-> "idle", attempt |-> 0, wish |-> None, hash |-> 0, character |-> None,
           refused |-> "idle", troubled |-> FALSE]

Init ==
    /\ issued = 0
    /\ accounts = [u \in Users |-> IF u \in Banned THEN [password |-> None, banned |-> TRUE]
                                   ELSE None]
    /\ sessions = [h \in Hashes |-> None]
    /\ characters = [id \in CharacterIds |-> None]
    /\ clock = 0
    /\ pendingHandoffs = [id \in CharacterIds |-> None]
    /\ prepares = <<>>
    /\ requests = [c \in Connections |-> <<>>]
    /\ answers = [c \in Connections |-> <<>>]
    /\ dead = {}
    /\ client = [k \in Clients |-> Nobody]
    /\ troubles = 0

Next ==
    \/ \E c \in Connections : Handle(c)
    \/ PlayerEnterReady
    \/ Restart
    \/ \E k \in Clients :
           \/ \E wish \in Wishes[k] : EnterWorld(k, wish)
           \/ Read(k) \/ Silence(k) \/ HalfAnAnswer(k) \/ Quit(k)
    \/ \E id \in CharacterIds, zone \in Zones : ZoneSaves(id, zone)
    \/ Tick

Spec == Init /\ [][Next]_vars

\* Every wait of the script has a deadline, and WorldLogin and the zones go on working.
FairSpec ==
    /\ Spec
    /\ \A k \in Clients : WF_vars(Read(k) \/ Silence(k) \/ HalfAnAnswer(k))
    /\ WF_vars(PlayerEnterReady \/ \E c \in Connections : Handle(c))
-----------------------------------------------------------------------------
(* Properties *)

TypeOK ==
    /\ accounts \in [Users -> {None} \cup Account]
    /\ issued \in Nat
    /\ sessions \in [Hashes -> {None} \cup Session]
    /\ characters \in [CharacterIds -> {None} \cup Character]
    /\ clock \in 0 .. MaxClock
    /\ pendingHandoffs \in [CharacterIds -> {None} \cup PendingHandoff]
    /\ prepares \in Seq(CharacterIds)
    /\ requests \in [Connections -> Seq(Request)]
    /\ answers \in [Connections -> Seq(Response)]
    /\ dead \subseteq Connections
    /\ client \in [Clients -> Run]
    /\ \A k \in Clients :
           /\ client[k].attempt <= MaxAttempts[k]
           /\ client[k].step \in Waiting \cup {"in"} => client[k].attempt > 0
           /\ client[k].attempt > 0 => client[k].wish \in Wishes[k]
    /\ troubles \in 0 .. MaxTroubles

\* Whatever is late, lost, repeated or overtaken by another client of the same account,
\* a client that is let into a zone plays the character its user named, in the account
\* its user named, and holds a session of its own login (SelectCharacter and
\* PlayerEnterReady of WorldLogin, the list of the script).
EntersAsTyped ==
    \A k \in Clients : client[k].step = "in" =>
        /\ client[k].character = <<client[k].wish.user, client[k].wish.name>>
        /\ characters[client[k].character] # None
        /\ \A j \in Clients \ {k} : client[j].step = "in" => client[j].hash # client[k].hash

\* However many clients create characters at once, and however often they try again,
\* no account has more of them than the limit (CreateCharacterRequest).
LimitHolds == \A u \in Users : Cardinality(CharactersOf(u)) <= CharacterLimit

\* A script whose every answer came in time is turned away where it logs in or looks for
\* its character only for what its user typed, or because its day is over: not because
\* another client of the same account registers, logs in or creates the same character at
\* the same time.  (Where it selects the character it may be turned away for other
\* reasons, of which this says nothing.)
TurnedAwayForAReason ==
    \A k \in Clients :
        LET me == client[k]
            account == accounts[me.wish.user]
        IN  me.step = "failed" /\ ~ me.troubled =>
                /\ me.refused = "relogin" =>
                       \/ account = None /\ ~ (WellFormed(me.wish.user) /\ WellFormed(me.wish.password))
                       \/ account # None /\ (account.banned \/ account.password # me.wish.password)
                /\ me.refused = "list" =>
                       \/ ~ Live(me.hash)
                       \/ ~ HasRoom(me.wish.user)
                       \/ ~ MayBeCreated(me.wish)

\* Every press of Enter World ends, in a zone or with a message: also that of a client
\* whose handoff was overwritten by another one and is never answered.
EveryLoginEnds ==
    \A k \in Clients : client[k].step \in Waiting ~> client[k].step \notin Waiting
=============================================================================
