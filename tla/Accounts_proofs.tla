------------------------- MODULE Accounts_proofs -------------------------
(***************************************************************************)
(* Proofs about accounts, sessions and characters, for any number of       *)
(* clients, wishes, attempts, restarts of WorldLogin and missed deadlines. *)
(***************************************************************************)
EXTENDS Accounts, FiniteSetTheorems, TLAPS

-----------------------------------------------------------------------------
(* Types *)

LEMMA Records ==
    /\ \A a \in Account : a # None
    /\ \A s \in Session : s # None
    /\ \A h \in PendingHandoff : h # None
    /\ \A id \in CharacterIds : id # None
    /\ \A p \in Response : p # None
    /\ \A r \in Character : r # None
  BY NoneAssumption

LEMMA ConnTyped ==
    ASSUME TypeOK, NEW k \in Clients, client[k].attempt > 0
    PROVE  Conn(k) \in Connections
<1>1. client[k].attempt \in 1 .. MaxAttempts[k]
  BY LimitsAssumption DEF TypeOK, Run
<1> QED
  BY <1>1 DEF Conn, Connections

LEMMA WishTyped ==
    ASSUME NEW k \in Clients, NEW w \in Wishes[k]
    PROVE  w \in Wish /\ w.user \in Users /\ w.password \in Passwords /\ w.name \in Names
  BY DEF Wish, Users, Passwords, Names

LEMMA RequestTyped ==
    ASSUME NEW r \in Request
    PROVE  /\ r.type \in {"LoginRequest", "CreateAccountRequest"} =>
                  r.user \in Users /\ r.password \in Passwords
           /\ r.type \in {"CreateCharacterRequest", "CharacterListRequest", "SelectCharacterRequest"}
                  => r.hash \in Nat
           /\ r.type = "CreateCharacterRequest" =>
                  /\ r.name \in Names
                  /\ r.race \in {w.race : w \in Wish} /\ r.class \in {w.class : w \in Wish}
           /\ r.type = "SelectCharacterRequest" => r.character \in CharacterIds
           /\ r.type \in {"LoginRequest", "CreateAccountRequest", "CreateCharacterRequest",
                          "CharacterListRequest", "SelectCharacterRequest"}
  BY DEF Request

LEMMA ResponseTyped ==
    ASSUME NEW a \in Response
    PROVE  /\ a.ok \in BOOLEAN
           /\ a.type = "LoginResponse" /\ a.ok => a.hash \in Nat
           /\ a.type = "CharacterListResponse" /\ a.ok => a.characters \in SUBSET CharacterIds
           /\ a.type = "CreateCharacterResponse" /\ a.ok => a.character \in CharacterIds
           /\ a.type = "ZoneConnectInfo" /\ a.ok => a.character \in CharacterIds /\ a.token \in Nat
  BY DEF Response

LEMMA HeadTyped ==
    ASSUME NEW S, NEW queue \in Seq(S), queue # <<>>
    PROVE  Head(queue) \in S /\ Tail(queue) \in Seq(S)
  OBVIOUS

\* An answer, whether anybody reads it or not.
LEMMA AnswerTyped ==
    ASSUME TypeOK, NEW c \in Connections, NEW a \in Response, Answer(c, a)
    PROVE  /\ answers' \in [Connections -> Seq(Response)]
           /\ answers'[c] = IF Open(c) THEN Append(answers[c], a) ELSE answers[c]
           /\ \A d \in Connections \ {c} : answers'[d] = answers[d]
  BY DEF Answer, TypeOK

LEMMA FailureTyped ==
    /\ Failure("LoginResponse") \in Response
    /\ Failure("CharacterListResponse") \in Response
    /\ Failure("CreateCharacterResponse") \in Response
    /\ Failure("ZoneConnectInfo") \in Response
  BY DEF Failure, Response

\* A live session belongs to an account.
LEMMA LiveTyped ==
    ASSUME TypeOK, NEW hash \in Nat, Live(hash)
    PROVE  hash \in Hashes /\ sessions[hash] \in Session /\ sessions[hash].account \in Users
  BY DEF TypeOK, Live, Session

LEMMA IssueSessionTyped ==
    ASSUME TypeOK, NEW user \in Users, sessions' = IssueSession(user), issued' = issued + 1
    PROVE  /\ sessions' \in [Hashes' -> {None} \cup Session]
           /\ issued' \in Nat
           /\ sessions'[issued + 1] = [account |-> user, expires |-> clock + SessionLife]
           /\ \A h \in Hashes : h \in Hashes' /\ h # issued + 1 /\ sessions'[h] \in {None, sessions[h]}
<1>1. [account |-> user, expires |-> clock + SessionLife] \in Session
  BY LimitsAssumption DEF TypeOK, Session
<1>2. Hashes' = 1 .. issued + 1 /\ issued \in Nat
  BY DEF Hashes, TypeOK
<1>3. \A h \in 1 .. issued + 1 : h # issued + 1 => h \in Hashes
  BY <1>2 DEF Hashes
<1>4. \A h \in Hashes : sessions[h] \in {None} \cup Session
  BY DEF TypeOK
<1> QED
  BY <1>1, <1>2, <1>3, <1>4 DEF IssueSession, Hashes

LEMMA CreateCharacterTyped ==
    ASSUME TypeOK, NEW user \in Users, NEW r \in Request,
           r.type = "CreateCharacterRequest", MayBeCreated(r)
    PROVE  /\ <<user, r.name>> \in CharacterIds
           /\ CreateCharacter(user, r) \in [CharacterIds -> {None} \cup Character]
           /\ CreateCharacter(user, r)[<<user, r.name>>] # None
           /\ \A id \in CharacterIds \ {<<user, r.name>>} : CreateCharacter(user, r)[id] = characters[id]
           /\ \A id \in CharacterIds : characters[id] # None => CreateCharacter(user, r)[id] # None
<1> DEFINE id == <<user, r.name>>
           row == [race |-> r.race, class |-> r.class, zone |-> StartZone[r.race], progress |-> 0]
<1>1. id \in CharacterIds
  BY RequestTyped DEF CharacterIds
<1>2. r.race \in DOMAIN Classes /\ r.class \in Classes[r.race]
  BY DEF MayBeCreated
<1>3. StartZone[r.race] \in Zones
  <2>1. PICK w \in Wish : w.race = r.race
    BY RequestTyped
  <2> QED
    BY <1>2, <2>1, WishesAssumption
<1>4. row \in Character
  BY <1>2, <1>3, LimitsAssumption DEF Character
<1>5. CreateCharacter(user, r) = IF characters[id] # None THEN characters
                                 ELSE [characters EXCEPT ![id] = row]
  BY DEF CreateCharacter
<1> HIDE DEF id, row
<1>6. row # None
  BY <1>4, Records
<1>7. characters \in [CharacterIds -> {None} \cup Character]
  BY DEF TypeOK
<1>8. CreateCharacter(user, r) \in [CharacterIds -> {None} \cup Character]
  BY <1>1, <1>4, <1>5, <1>7
<1>9. /\ CreateCharacter(user, r)[id] # None
      /\ \A x \in CharacterIds \ {id} : CreateCharacter(user, r)[x] = characters[x]
      /\ \A x \in CharacterIds : characters[x] # None => CreateCharacter(user, r)[x] # None
  BY <1>1, <1>5, <1>6, <1>7
<1> QED
  BY <1>1, <1>8, <1>9 DEF id

LEMMA InitTyped == Init => TypeOK
<1> SUFFICES ASSUME Init PROVE TypeOK
  OBVIOUS
<1>1. accounts \in [Users -> {None} \cup Account]
  BY DEF Init, Account
<1>2. issued \in Nat /\ Hashes = {} /\ sessions \in [Hashes -> {None} \cup Session]
  BY DEF Init, Hashes
<1>3. characters \in [CharacterIds -> {None} \cup Character]
      /\ pendingHandoffs \in [CharacterIds -> {None} \cup PendingHandoff]
  BY DEF Init
<1>4. clock \in 0 .. MaxClock /\ troubles \in 0 .. MaxTroubles
  BY LimitsAssumption DEF Init
<1>5. prepares \in Seq(CharacterIds) /\ dead \subseteq Connections
      /\ requests \in [Connections -> Seq(Request)] /\ answers \in [Connections -> Seq(Response)]
  BY DEF Init
<1>6. Nobody \in Run
  BY DEF Nobody, Run, Steps
<1>7. client \in [Clients -> Run]
  BY <1>6 DEF Init
<1>8. \A k \in Clients : client[k].step = "idle" /\ client[k].attempt = 0
  BY DEF Init, Nobody
<1>9. \A k \in Clients : MaxAttempts[k] \in Nat
  BY LimitsAssumption
<1> QED
  BY <1>1, <1>2, <1>3, <1>4, <1>5, <1>7, <1>8, <1>9 DEF TypeOK, Waiting

\* What the script does with its run, and with what WorldLogin will read.
LEMMA FailTyped ==
    ASSUME TypeOK, NEW k \in Clients, NEW me \in Run, Fail(k, me)
    PROVE  /\ client' \in [Clients -> Run]
           /\ client'[k] = [me EXCEPT !.step = "failed", !.refused = me.step]
           /\ \A j \in Clients \ {k} : client'[j] = client[j]
           /\ requests' = requests
  BY DEF Fail, TypeOK, Run, Steps

\* The run k goes on to a step with a request, or fails since WorldLogin has died.
Sent(k, step, r) ==
    \/ /\ client'[k].step = step
       /\ requests'[Conn(k)] = Append(requests[Conn(k)], r)
    \/ /\ client'[k].step = "failed" /\ client'[k].troubled
       /\ requests'[Conn(k)] = requests[Conn(k)]

LEMMA SendTyped ==
    ASSUME TypeOK, NEW k \in Clients, NEW me \in Run, NEW step \in Waiting, NEW r \in Request,
           client[k].attempt > 0, Send(k, me, step, r)
    PROVE  /\ client' \in [Clients -> Run]
           /\ \A j \in Clients \ {k} : client'[j] = client[j]
           /\ requests' \in [Connections -> Seq(Request)]
           /\ \A d \in Connections \ {Conn(k)} : requests'[d] = requests[d]
           /\ client'[k].attempt = me.attempt /\ client'[k].wish = me.wish
           /\ client'[k].hash = me.hash
           /\ me.troubled => client'[k].troubled
           /\ Sent(k, step, r)
<1>1. Conn(k) \in Connections
  BY ConnTyped
<1>2. requests \in [Connections -> Seq(Request)] /\ client \in [Clients -> Run]
  BY DEF TypeOK
<1>3. CASE Conn(k) \in dead
  <2> DEFINE worse == [me EXCEPT !.troubled = TRUE]
  <2>1. /\ worse \in Run /\ worse.troubled
        /\ worse.attempt = me.attempt /\ worse.wish = me.wish /\ worse.hash = me.hash
    BY DEF Run
  <2>2. Fail(k, worse)
    BY <1>3 DEF Send
  <2> HIDE DEF worse
  <2>3. /\ client' \in [Clients -> Run]
        /\ client'[k] = [worse EXCEPT !.step = "failed", !.refused = worse.step]
        /\ \A j \in Clients \ {k} : client'[j] = client[j]
        /\ requests' = requests
    BY <2>1, <2>2, FailTyped
  <2>4. /\ client'[k].attempt = me.attempt /\ client'[k].wish = me.wish
        /\ client'[k].hash = me.hash
        /\ client'[k].step = "failed" /\ client'[k].troubled
    BY <2>1, <2>3 DEF Run
  <2> QED
    BY <1>2, <2>3, <2>4 DEF Sent
<1>4. CASE Conn(k) \notin dead
  <2>1. /\ client' = [client EXCEPT ![k] = [me EXCEPT !.step = step]]
        /\ requests' = [requests EXCEPT ![Conn(k)] = Append(@, r)]
    BY <1>4 DEF Send
  <2>2. [me EXCEPT !.step = step] \in Run
    BY DEF Run, Waiting
  <2>3. Append(requests[Conn(k)], r) \in Seq(Request)
    BY <1>1, <1>2
  <2>4. client' \in [Clients -> Run] /\ client'[k] = [me EXCEPT !.step = step]
        /\ \A j \in Clients \ {k} : client'[j] = client[j]
    BY <1>2, <2>1, <2>2
  <2>5. /\ requests' \in [Connections -> Seq(Request)]
        /\ \A d \in Connections \ {Conn(k)} : requests'[d] = requests[d]
        /\ requests'[Conn(k)] = Append(requests[Conn(k)], r)
    BY <1>1, <1>2, <2>1, <2>3
  <2>6. /\ client'[k].attempt = me.attempt /\ client'[k].wish = me.wish
        /\ client'[k].hash = me.hash /\ client'[k].troubled = me.troubled
        /\ client'[k].step = step
    BY <2>4 DEF Run
  <2> QED
    BY <2>4, <2>5, <2>6 DEF Sent
<1> QED
  BY <1>3, <1>4

-----------------------------------------------------------------------------
(* One step of the script *)

\* What a step of the script makes of an answer; None is one it cannot read.
Outcome(k, packet) ==
    LET old     == client[k]
        new     == client'[k]
        granted == Grants(packet, old.step)
    IN  \/ /\ old.step \in {"login", "relogin"} /\ granted
           /\ new.hash = packet.hash
           /\ Sent(k, "create",
                   [type |-> "CreateCharacterRequest", name |-> old.wish.name,
                    race |-> old.wish.race, class |-> old.wish.class, hash |-> packet.hash])
        \/ /\ old.step = "login" /\ ~ granted
           /\ new.hash = old.hash
           /\ Sent(k, "register",
                   [type |-> "CreateAccountRequest", user |-> old.wish.user,
                    password |-> old.wish.password])
        \/ /\ old.step = "register"
           /\ new.hash = old.hash
           /\ Sent(k, "relogin", LoginRequest(old.wish))
        \/ /\ old.step = "create" /\ ~ granted
           /\ new.hash = old.hash
           /\ Sent(k, "list", [type |-> "CharacterListRequest", hash |-> old.hash])
        \/ /\ new.hash = old.hash
           /\ \E id \in CharacterIds :
                  /\ \/ old.step = "create" /\ granted /\ id = packet.character
                     \/ old.step = "list" /\ granted /\ id \in Listed(packet, old.wish.name)
                  /\ Sent(k, "select", [type |-> "SelectCharacterRequest", character |-> id,
                                        hash |-> old.hash])
        \/ /\ old.step = "select" /\ granted
           /\ new.step = "in" /\ new.hash = packet.token /\ new.character = packet.character
           /\ requests'[Conn(k)] = requests[Conn(k)]
        \/ /\ new.step = "failed" /\ new.hash = old.hash
           /\ requests'[Conn(k)] = requests[Conn(k)]
           /\ \/ new.troubled
              \/ /\ old.step \in {"relogin", "list", "select"} /\ new.refused = old.step
                 /\ granted => old.step = "list" /\ Listed(packet, old.wish.name) = {}

\* What every step of the script keeps.
SameRun(k) ==
    /\ client' \in [Clients -> Run] /\ requests' \in [Connections -> Seq(Request)]
    /\ \A j \in Clients \ {k} : client'[j] = client[j]
    /\ \A d \in Connections \ {Conn(k)} : requests'[d] = requests[d]
    /\ client'[k].attempt = client[k].attempt /\ client'[k].wish = client[k].wish
    /\ client[k].troubled => client'[k].troubled

LEMMA RunTyped ==
    ASSUME TypeOK, NEW k \in Clients
    PROVE  /\ client[k] \in Run
           /\ client[k].step \in Waiting =>
                  /\ client[k].attempt > 0 /\ client[k].wish \in Wishes[k]
                  /\ Conn(k) \in Connections
  BY ConnTyped DEF TypeOK

\* A send from what the script remembers.
LEMMA SendOutcome ==
    ASSUME TypeOK, NEW k \in Clients, client[k].step \in Waiting, NEW me \in Run,
           me.attempt = client[k].attempt, me.wish = client[k].wish,
           client[k].troubled => me.troubled,
           NEW step \in Waiting, NEW r \in Request, Send(k, me, step, r)
    PROVE  /\ SameRun(k) /\ Sent(k, step, r) /\ client'[k].hash = me.hash
           /\ me.troubled => client'[k].troubled
<1>1. client[k].attempt > 0
  BY RunTyped
<1> QED
  BY <1>1, SendTyped DEF SameRun

LEMMA FailOutcome ==
    ASSUME TypeOK, NEW k \in Clients, client[k].step \in Waiting, NEW me \in Run,
           me.attempt = client[k].attempt, me.wish = client[k].wish, me.hash = client[k].hash,
           me.step = client[k].step, client[k].troubled => me.troubled, Fail(k, me)
    PROVE  /\ SameRun(k)
           /\ client'[k].step = "failed" /\ client'[k].hash = client[k].hash
           /\ client'[k].refused = client[k].step /\ client'[k].troubled = me.troubled
           /\ requests' = requests
<1>1. /\ client' \in [Clients -> Run]
      /\ client'[k] = [me EXCEPT !.step = "failed", !.refused = me.step]
      /\ \A j \in Clients \ {k} : client'[j] = client[j]
      /\ requests' = requests
  BY FailTyped
<1>2. /\ client'[k].attempt = me.attempt /\ client'[k].wish = me.wish
      /\ client'[k].hash = me.hash /\ client'[k].troubled = me.troubled
      /\ client'[k].step = "failed" /\ client'[k].refused = me.step
  BY <1>1 DEF Run
<1>3. requests \in [Connections -> Seq(Request)]
  BY DEF TypeOK
<1> QED
  BY <1>1, <1>2, <1>3 DEF SameRun

\* The requests of the script are those WorldLogin knows.
LEMMA WishRequests ==
    ASSUME NEW k \in Clients, NEW w \in Wishes[k], NEW hash \in Nat
    PROVE  /\ LoginRequest(w) \in Request
           /\ [type |-> "CreateAccountRequest", user |-> w.user, password |-> w.password]
                  \in Request
           /\ [type |-> "CreateCharacterRequest", name |-> w.name, race |-> w.race,
               class |-> w.class, hash |-> hash] \in Request
           /\ [type |-> "CharacterListRequest", hash |-> hash] \in Request
           /\ \A id \in CharacterIds :
                  [type |-> "SelectCharacterRequest", character |-> id, hash |-> hash] \in Request
<1>1. /\ w.user \in Users /\ w.password \in Passwords /\ w.name \in Names
      /\ w.race \in {v.race : v \in Wish} /\ w.class \in {v.class : v \in Wish}
  BY WishTyped
<1>2. LoginRequest(w) \in Request
  BY <1>1 DEF LoginRequest, Request
<1>3. [type |-> "CreateAccountRequest", user |-> w.user, password |-> w.password] \in Request
  BY <1>1 DEF Request
<1>4. [type |-> "CreateCharacterRequest", name |-> w.name, race |-> w.race,
       class |-> w.class, hash |-> hash] \in Request
  BY <1>1 DEF Request
<1>5. /\ [type |-> "CharacterListRequest", hash |-> hash] \in Request
      /\ \A id \in CharacterIds :
             [type |-> "SelectCharacterRequest", character |-> id, hash |-> hash] \in Request
  BY DEF Request
<1> QED
  BY <1>2, <1>3, <1>4, <1>5

\* An answer that grants a step is one of the type the step waits for.
LEMMA Granted ==
    ASSUME NEW packet \in Response \cup {None}, NEW step \in Waiting, step # "register",
           Grants(packet, step)
    PROVE  /\ packet \in Response /\ packet.ok
           /\ step \in {"login", "relogin"} => packet.type = "LoginResponse" /\ packet.hash \in Nat
           /\ step = "create" => /\ packet.type = "CreateCharacterResponse"
                                 /\ packet.character \in CharacterIds
           /\ step = "list" => /\ packet.type = "CharacterListResponse"
                               /\ packet.characters \in SUBSET CharacterIds
           /\ step = "select" => /\ packet.type = "ZoneConnectInfo"
                                 /\ packet.character \in CharacterIds /\ packet.token \in Nat
<1>1. packet \in Response /\ packet.ok
  BY DEF Grants
<1>2. packet.type = CASE step \in {"login", "relogin"} -> "LoginResponse"
                      [] step = "create" -> "CreateCharacterResponse"
                      [] step = "list" -> "CharacterListResponse"
                      [] step = "select" -> "ZoneConnectInfo"
  BY DEF Grants
<1>3. /\ step \in {"login", "relogin"} => packet.type = "LoginResponse"
      /\ step = "create" => packet.type = "CreateCharacterResponse"
      /\ step = "list" => packet.type = "CharacterListResponse"
      /\ step = "select" => packet.type = "ZoneConnectInfo"
  BY <1>2
<1> QED
  BY <1>1, <1>3, ResponseTyped

LEMMA ToldTyped ==
    ASSUME TypeOK, NEW k \in Clients, NEW packet \in Response \cup {None}
    PROVE  LET me == Told(k, packet)
           IN  /\ me \in Run
               /\ me.step = client[k].step /\ me.attempt = client[k].attempt
               /\ me.wish = client[k].wish /\ me.hash = client[k].hash
               /\ client[k].troubled => me.troubled
               /\ packet = None => me.troubled
<1>1. client[k] \in Run
  BY RunTyped
<1>2. (packet = None) \in BOOLEAN
  OBVIOUS
<1> DEFINE me == Told(k, packet)
<1>3. me = [client[k] EXCEPT !.troubled = client[k].troubled \/ packet = None]
  BY DEF Told
<1> HIDE DEF me
<1>4. me \in Run /\ me.step = client[k].step /\ me.attempt = client[k].attempt
      /\ me.wish = client[k].wish /\ me.hash = client[k].hash
      /\ me.troubled = (client[k].troubled \/ packet = None)
  BY <1>1, <1>3 DEF Run
<1> QED
  BY <1>4 DEF me

LEMMA GoOnOutcome ==
    ASSUME TypeOK, NEW k \in Clients, client[k].step \in Waiting,
           NEW packet \in Response \cup {None}, GoOn(k, packet)
    PROVE  /\ SameRun(k) /\ Outcome(k, packet)
           /\ packet = None => client'[k].troubled
<1> DEFINE old == client[k]
           w   == client[k].wish
           me  == Told(k, packet)
<1>0. /\ me \in Run
      /\ me.step = old.step /\ me.attempt = old.attempt /\ me.wish = w /\ me.hash = old.hash
      /\ old.troubled => me.troubled
      /\ packet = None => me.troubled
  BY ToldTyped
<1>1. old \in Run /\ w \in Wishes[k] /\ old.hash \in Nat
  BY RunTyped DEF Run
<1> DEFINE granted == Grants(packet, old.step)
<1>2. \/ /\ old.step \in {"login", "relogin"} /\ granted
         /\ Create(k, [me EXCEPT !.hash = packet.hash])
      \/ old.step = "login" /\ ~ granted /\ Register(k, me)
      \/ old.step = "register" /\ SendLogin(k, me, "relogin")
      \/ old.step = "create" /\ granted /\ Select(k, me, packet.character)
      \/ old.step = "create" /\ ~ granted /\ List(k, me)
      \/ /\ old.step = "list" /\ granted
         /\ \E id \in Listed(packet, w.name) : Select(k, me, id)
      \/ /\ old.step = "select" /\ granted
         /\ client' = [client EXCEPT ![k] = [me EXCEPT !.step = "in", !.hash = packet.token,
                                                       !.character = packet.character]]
         /\ UNCHANGED requests
      \/ /\ old.step \in {"relogin", "list", "select"}
         /\ granted => old.step = "list" /\ Listed(packet, w.name) = {}
         /\ Fail(k, me)
  BY <1>0 DEF GoOn
<1>3. granted /\ old.step # "register" =>
          /\ packet \in Response
          /\ old.step \in {"login", "relogin"} => packet.hash \in Nat
          /\ old.step = "create" => packet.character \in CharacterIds
          /\ old.step = "list" => packet.characters \in SUBSET CharacterIds
          /\ old.step = "select" => packet.character \in CharacterIds /\ packet.token \in Nat
  BY Granted
<1> HIDE DEF me
<1>4. CASE /\ old.step \in {"login", "relogin"} /\ granted
           /\ Create(k, [me EXCEPT !.hash = packet.hash])
  <2>1. packet.hash \in Nat
    BY <1>3, <1>4
  <2>2. PICK know : know = [me EXCEPT !.hash = packet.hash]
    OBVIOUS
  <2>3. /\ know \in Run /\ know.attempt = old.attempt /\ know.wish = w
        /\ know.hash = packet.hash /\ know.troubled = me.troubled
    BY <1>0, <2>1, <2>2 DEF Run
  <2>4. PICK r : r = [type |-> "CreateCharacterRequest", name |-> w.name, race |-> w.race,
                      class |-> w.class, hash |-> packet.hash]
    OBVIOUS
  <2>5. r \in Request
    BY <1>1, <2>1, <2>4, WishRequests
  <2>6. Send(k, know, "create", r)
    BY <1>4, <2>2, <2>3, <2>4 DEF Create
  <2>7. /\ SameRun(k) /\ Sent(k, "create", r) /\ client'[k].hash = know.hash
        /\ know.troubled => client'[k].troubled
    BY <1>0, <2>3, <2>5, <2>6, SendOutcome DEF Waiting, Steps
  <2> QED
    BY <1>0, <1>4, <2>3, <2>4, <2>7 DEF Outcome
<1>5. CASE old.step = "login" /\ ~ granted /\ Register(k, me)
  <2>1. PICK r : r = [type |-> "CreateAccountRequest", user |-> w.user, password |-> w.password]
    OBVIOUS
  <2>2. r \in Request /\ Send(k, me, "register", r)
    BY <1>0, <1>1, <1>5, <2>1, WishRequests DEF Register
  <2>3. /\ SameRun(k) /\ Sent(k, "register", r) /\ client'[k].hash = me.hash
        /\ me.troubled => client'[k].troubled
    BY <1>0, <2>2, SendOutcome DEF Waiting, Steps
  <2> QED
    BY <1>0, <1>5, <2>1, <2>3 DEF Outcome
<1>6. CASE old.step = "register" /\ SendLogin(k, me, "relogin")
  <2>1. PICK r : r = LoginRequest(w)
    OBVIOUS
  <2>2. r \in Request /\ Send(k, me, "relogin", r)
    BY <1>0, <1>1, <1>6, <2>1, WishRequests DEF SendLogin
  <2>3. /\ SameRun(k) /\ Sent(k, "relogin", r) /\ client'[k].hash = me.hash
        /\ me.troubled => client'[k].troubled
    BY <1>0, <2>2, SendOutcome DEF Waiting, Steps
  <2> QED
    BY <1>0, <1>6, <2>1, <2>3 DEF Outcome
<1>7. ASSUME NEW id \in CharacterIds, Select(k, me, id),
             \/ old.step = "create" /\ granted /\ id = packet.character
             \/ old.step = "list" /\ granted /\ id \in Listed(packet, w.name)
      PROVE  /\ SameRun(k) /\ Outcome(k, packet)
             /\ packet = None => client'[k].troubled
  <2>1. PICK r : r = [type |-> "SelectCharacterRequest", character |-> id, hash |-> old.hash]
    OBVIOUS
  <2>2. PICK know : know = [me EXCEPT !.character = id]
    OBVIOUS
  <2>3. /\ know \in Run /\ know.attempt = old.attempt /\ know.wish = w
        /\ know.hash = old.hash /\ know.troubled = me.troubled
    BY <1>0, <2>2 DEF Run
  <2>4. r \in Request /\ Send(k, know, "select", r)
    BY <1>0, <1>1, <1>7, <2>1, <2>2, WishRequests DEF Select
  <2>5. /\ SameRun(k) /\ Sent(k, "select", r) /\ client'[k].hash = know.hash
        /\ know.troubled => client'[k].troubled
    BY <1>0, <2>3, <2>4, SendOutcome DEF Waiting, Steps
  <2> QED
    BY <1>0, <1>7, <2>1, <2>3, <2>5 DEF Outcome
<1>8. CASE old.step = "create" /\ granted /\ Select(k, me, packet.character)
  BY <1>3, <1>7, <1>8
<1>9. CASE old.step = "list" /\ granted /\ \E id \in Listed(packet, w.name) : Select(k, me, id)
  <2>1. PICK id \in Listed(packet, w.name) : Select(k, me, id)
    BY <1>9
  <2>2. id \in CharacterIds
    BY <1>3, <1>9, <2>1 DEF Listed
  <2> QED
    BY <1>7, <1>9, <2>1, <2>2
<1>10. CASE old.step = "create" /\ ~ granted /\ List(k, me)
  <2>1. PICK r : r = [type |-> "CharacterListRequest", hash |-> old.hash]
    OBVIOUS
  <2>2. r \in Request /\ Send(k, me, "list", r)
    BY <1>0, <1>1, <1>10, <2>1, WishRequests DEF List
  <2>3. /\ SameRun(k) /\ Sent(k, "list", r) /\ client'[k].hash = me.hash
        /\ me.troubled => client'[k].troubled
    BY <1>0, <2>2, SendOutcome DEF Waiting, Steps
  <2> QED
    BY <1>0, <1>10, <2>1, <2>3 DEF Outcome
<1>11. CASE /\ old.step = "select" /\ granted
            /\ client' = [client EXCEPT ![k] = [me EXCEPT !.step = "in", !.hash = packet.token,
                                                          !.character = packet.character]]
            /\ UNCHANGED requests
  <2>1. packet.character \in CharacterIds /\ packet.token \in Nat
    BY <1>3, <1>11
  <2>2. PICK new : new = [me EXCEPT !.step = "in", !.hash = packet.token,
                                    !.character = packet.character]
    OBVIOUS
  <2>3. /\ new \in Run /\ new.attempt = old.attempt /\ new.wish = w
        /\ new.step = "in" /\ new.hash = packet.token /\ new.character = packet.character
        /\ new.troubled = me.troubled
    BY <1>0, <2>1, <2>2 DEF Run, Steps
  <2>4. client' = [client EXCEPT ![k] = new] /\ requests' = requests
    BY <1>11, <2>2
  <2>5. SameRun(k) /\ client'[k] = new
    BY <1>0, <2>3, <2>4 DEF SameRun, TypeOK
  <2> QED
    BY <1>0, <1>11, <2>3, <2>4, <2>5 DEF Outcome
<1>12. CASE /\ old.step \in {"relogin", "list", "select"}
            /\ granted => old.step = "list" /\ Listed(packet, w.name) = {}
            /\ Fail(k, me)
  <2>1. /\ SameRun(k)
        /\ client'[k].step = "failed" /\ client'[k].hash = old.hash
        /\ client'[k].refused = old.step /\ client'[k].troubled = me.troubled
        /\ requests' = requests
    BY <1>0, <1>12, FailOutcome
  <2> QED
    BY <1>0, <1>12, <2>1 DEF Outcome
<1> QED
  BY <1>2, <1>4, <1>5, <1>6, <1>8, <1>9, <1>10, <1>11, <1>12

\* A step of the script hears the answer in front, or none that it can read.
LEMMA ScriptOutcome ==
    ASSUME TypeOK, NEW k \in Clients, Read(k) \/ Silence(k) \/ HalfAnAnswer(k)
    PROVE  /\ client[k].step \in Waiting /\ SameRun(k)
           /\ UNCHANGED <<tables, clock, pendingHandoffs, prepares, dead>>
           /\ answers' \in [Connections -> Seq(Response)]
           /\ \A d \in Connections \ {Conn(k)} : answers'[d] = answers[d]
           /\ \/ /\ answers[Conn(k)] # <<>>
                 /\ Outcome(k, Head(answers[Conn(k)]))
                 /\ answers'[Conn(k)] = IF client'[k].step \in Waiting THEN Tail(answers[Conn(k)])
                                        ELSE <<>>
              \/ /\ client'[k].troubled
                 /\ Outcome(k, None)
                 /\ answers'[Conn(k)] \in {answers[Conn(k)], <<>>}
           /\ troubles' \in 0 .. MaxTroubles
<1>1. client[k].step \in Waiting
  BY DEF Read, Silence, HalfAnAnswer, Deadline
<1>2. /\ Conn(k) \in Connections /\ client[k] \in Run
      /\ answers \in [Connections -> Seq(Response)]
      /\ answers[Conn(k)] \in Seq(Response)
  BY <1>1, RunTyped DEF TypeOK
<1>3. ASSUME NEW rest \in Seq(Response), Left(k, rest)
      PROVE  /\ answers' \in [Connections -> Seq(Response)]
             /\ \A d \in Connections \ {Conn(k)} : answers'[d] = answers[d]
             /\ answers'[Conn(k)] = IF client'[k].step \in Waiting THEN rest ELSE <<>>
  BY <1>2, <1>3 DEF Left
<1>4. ASSUME Deadline(k) PROVE troubles' \in 0 .. MaxTroubles
  BY <1>4, LimitsAssumption DEF Deadline, TypeOK
<1>5. CASE Read(k)
  <2>1. /\ answers[Conn(k)] # <<>> /\ GoOn(k, Head(answers[Conn(k)]))
        /\ Left(k, Tail(answers[Conn(k)]))
        /\ UNCHANGED <<tables, clock, pendingHandoffs, prepares, dead, troubles>>
    BY <1>5 DEF Read
  <2>2. Head(answers[Conn(k)]) \in Response /\ Tail(answers[Conn(k)]) \in Seq(Response)
    BY <1>2, <2>1, HeadTyped
  <2>3. SameRun(k) /\ Outcome(k, Head(answers[Conn(k)]))
    BY <1>1, <2>1, <2>2, GoOnOutcome
  <2>4. troubles' \in 0 .. MaxTroubles
    BY <2>1 DEF TypeOK
  <2> QED
    BY <1>1, <1>3, <2>1, <2>2, <2>3, <2>4
<1>6. CASE Silence(k)
  <2>1. /\ Deadline(k) /\ GoOn(k, None) /\ Left(k, <<>>)
        /\ UNCHANGED <<tables, clock, pendingHandoffs, prepares, dead>>
    BY <1>6 DEF Silence
  <2>2. SameRun(k) /\ Outcome(k, None) /\ client'[k].troubled
    BY <1>1, <2>1, GoOnOutcome
  <2>3. <<>> \in Seq(Response)
    OBVIOUS
  <2>4. answers'[Conn(k)] = <<>>
    BY <1>3, <2>1, <2>3
  <2> QED
    BY <1>1, <1>3, <1>4, <2>1, <2>2, <2>3, <2>4
<1>7. CASE HalfAnAnswer(k)
  <2>1. PICK me : me = [client[k] EXCEPT !.troubled = TRUE]
    OBVIOUS
  <2>2. /\ Deadline(k) /\ Left(k, answers[Conn(k)])
        /\ IF me.step = "register" THEN SendLogin(k, me, "relogin") ELSE Fail(k, me)
        /\ UNCHANGED <<tables, clock, pendingHandoffs, prepares, dead>>
    BY <1>7, <2>1 DEF HalfAnAnswer
  <2>3. /\ me \in Run /\ me.attempt = client[k].attempt /\ me.wish = client[k].wish
        /\ me.hash = client[k].hash /\ me.step = client[k].step /\ me.troubled
    BY <1>2, <2>1 DEF Run
  <2>4. CASE me.step = "register"
    <3>1. PICK r : r = LoginRequest(client[k].wish)
      OBVIOUS
    <3>2. r \in Request
      BY <1>1, <1>2, <3>1, RunTyped, WishRequests
    <3>3. Send(k, me, "relogin", r)
      BY <2>2, <2>3, <2>4, <3>1 DEF SendLogin
    <3>4. /\ SameRun(k) /\ Sent(k, "relogin", r) /\ client'[k].hash = me.hash
          /\ client'[k].troubled
      BY <1>1, <2>3, <3>2, <3>3, SendOutcome DEF Waiting, Steps
    <3>5. Outcome(k, None)
      BY <2>3, <2>4, <3>1, <3>4 DEF Outcome
    <3> QED
      BY <1>1, <1>2, <1>3, <1>4, <2>2, <3>4, <3>5
  <2>5. CASE me.step # "register"
    <3>1. /\ SameRun(k)
          /\ client'[k].step = "failed" /\ client'[k].hash = client[k].hash
          /\ client'[k].troubled = me.troubled /\ requests' = requests
      BY <1>1, <2>2, <2>3, <2>5, FailOutcome
    <3>2. Outcome(k, None)
      BY <2>3, <3>1 DEF Outcome
    <3> QED
      BY <1>1, <1>2, <1>3, <1>4, <2>2, <2>3, <3>1, <3>2
  <2> QED
    BY <2>4, <2>5
<1> QED
  BY <1>5, <1>6, <1>7 DEF Read

\* What the handlers of WorldLogin do to the tables and to the connection.
LEMMA HandleTyped ==
    ASSUME TypeOK, NEW c \in Connections, Handle(c)
    PROVE  TypeOK'
<1> DEFINE r == Head(requests[c])
<1>0. /\ r \in Request
      /\ requests' \in [Connections -> Seq(Request)]
      /\ UNCHANGED <<clock, dead, client, troubles>>
  BY HeadTyped DEF Handle, TypeOK
<1>1. \/ HandleCreateAccount(c, r) \/ HandleLogin(c, r) \/ HandleCharacterList(c, r)
      \/ HandleCreateCharacter(c, r) \/ HandleSelectCharacter(c, r)
  BY DEF Handle
<1> HIDE DEF r
<1>2. SUFFICES /\ accounts' \in [Users -> {None} \cup Account]
               /\ issued' \in Nat /\ sessions' \in [Hashes' -> {None} \cup Session]
               /\ characters' \in [CharacterIds -> {None} \cup Character]
               /\ pendingHandoffs' \in [CharacterIds -> {None} \cup PendingHandoff]
               /\ prepares' \in Seq(CharacterIds)
               /\ answers' \in [Connections -> Seq(Response)]
  BY <1>0 DEF TypeOK
<1>3. CASE HandleCreateAccount(c, r)
  <2>1. /\ UNCHANGED <<sessions, issued, characters, pendingHandoffs, prepares>>
        /\ r.type = "CreateAccountRequest"
        /\ accounts' \in {accounts,
                          [accounts EXCEPT ![r.user] = [password |-> r.password, banned |-> FALSE]]}
        /\ \E created \in BOOLEAN :
               Answer(c, [type |-> "CreateAccountResponse", ok |-> created])
    BY <1>3 DEF HandleCreateAccount
  <2>2. [password |-> r.password, banned |-> FALSE] \in Account /\ r.user \in Users
    BY <1>0, <2>1, RequestTyped DEF Account
  <2>3. \A created \in BOOLEAN : [type |-> "CreateAccountResponse", ok |-> created] \in Response
    BY DEF Response
  <2>4. answers' \in [Connections -> Seq(Response)]
    BY <2>1, <2>3, AnswerTyped
  <2> QED
    BY <2>1, <2>2, <2>4 DEF TypeOK, Hashes
<1>4. CASE HandleLogin(c, r)
  <2>1. /\ UNCHANGED <<accounts, characters, pendingHandoffs, prepares>>
        /\ r.type = "LoginRequest"
        /\ \/ /\ sessions' = IssueSession(r.user) /\ issued' = issued + 1
              /\ Answer(c, [type |-> "LoginResponse", ok |-> TRUE, hash |-> issued + 1])
           \/ UNCHANGED <<sessions, issued>> /\ Answer(c, Failure("LoginResponse"))
    BY <1>4 DEF HandleLogin
  <2>2. [type |-> "LoginResponse", ok |-> TRUE, hash |-> issued + 1] \in Response
    <3>1. issued + 1 \in Nat
      BY DEF TypeOK
    <3> QED
      BY <3>1 DEF Response
  <2>3. answers' \in [Connections -> Seq(Response)]
    BY <2>1, <2>2, AnswerTyped, FailureTyped
  <2>4. issued' \in Nat /\ sessions' \in [Hashes' -> {None} \cup Session]
    <3>1. r.user \in Users
      BY <1>0, <2>1, RequestTyped
    <3>2. CASE UNCHANGED <<sessions, issued>>
      BY <3>2 DEF TypeOK, Hashes
    <3> QED
      BY <2>1, <3>1, <3>2, IssueSessionTyped
  <2> QED
    BY <2>1, <2>3, <2>4 DEF TypeOK
<1>5. CASE HandleCharacterList(c, r)
  <2>1. UNCHANGED <<accounts, sessions, issued, characters, pendingHandoffs, prepares>>
    BY <1>5 DEF HandleCharacterList, tables
  <2>2. \A user : [type |-> "CharacterListResponse", ok |-> TRUE,
                   characters |-> CharactersOf(user)] \in Response
    BY DEF Response, CharactersOf
  <2>3. answers' \in [Connections -> Seq(Response)]
    <3>1. CASE Live(r.hash)
      <4>1. Answer(c, [type |-> "CharacterListResponse", ok |-> TRUE,
                       characters |-> CharactersOf(sessions[r.hash].account)])
        BY <1>5, <3>1 DEF HandleCharacterList
      <4> QED
        BY <2>2, <4>1, AnswerTyped
    <3>2. CASE ~ Live(r.hash)
      <4>1. Answer(c, Failure("CharacterListResponse"))
        BY <1>5, <3>2 DEF HandleCharacterList
      <4> QED
        BY <4>1, AnswerTyped, FailureTyped
    <3> QED
      BY <3>1, <3>2
  <2> QED
    BY <2>1, <2>3 DEF TypeOK, Hashes
<1>6. CASE HandleCreateCharacter(c, r)
  <2>1. UNCHANGED <<accounts, sessions, issued, pendingHandoffs, prepares>>
        /\ r.type = "CreateCharacterRequest"
    BY <1>6 DEF HandleCreateCharacter
  <2>2. PICK user : user = sessions[r.hash].account
    OBVIOUS
  <2>3. CASE Live(r.hash) /\ HasRoom(user) /\ MayBeCreated(r)
    <3>1. /\ characters' = CreateCharacter(user, r)
          /\ Answer(c, [type |-> "CreateCharacterResponse", ok |-> TRUE,
                        character |-> <<user, r.name>>])
      BY <1>6, <2>2, <2>3 DEF HandleCreateCharacter
    <3>2. r.hash \in Nat
      BY <1>0, <2>1, RequestTyped
    <3>3. user \in Users
      BY <2>2, <2>3, <3>2, LiveTyped
    <3>4. <<user, r.name>> \in CharacterIds /\ characters' \in [CharacterIds -> {None} \cup Character]
      BY <1>0, <2>1, <2>3, <3>1, <3>3, CreateCharacterTyped
    <3>5. [type |-> "CreateCharacterResponse", ok |-> TRUE, character |-> <<user, r.name>>]
              \in Response
      BY <3>4 DEF Response
    <3> QED
      BY <2>1, <3>1, <3>4, <3>5, AnswerTyped DEF TypeOK, Hashes
  <2>4. CASE ~ (Live(r.hash) /\ HasRoom(user) /\ MayBeCreated(r))
    <3>1. characters' = characters /\ Answer(c, Failure("CreateCharacterResponse"))
      BY <1>6, <2>2, <2>4 DEF HandleCreateCharacter
    <3> QED
      BY <2>1, <3>1, AnswerTyped, FailureTyped DEF TypeOK, Hashes
  <2> QED
    BY <2>3, <2>4
<1>7. CASE HandleSelectCharacter(c, r)
  <2>1. UNCHANGED <<accounts, sessions, issued, characters>> /\ r.type = "SelectCharacterRequest"
    BY <1>7 DEF HandleSelectCharacter, tables
  <2>2. r.character \in CharacterIds /\ r.hash \in Nat
    BY <1>0, <2>1, RequestTyped
  <2>3. CASE Answer(c, Failure("ZoneConnectInfo")) /\ UNCHANGED <<pendingHandoffs, prepares>>
    BY <2>1, <2>3, AnswerTyped, FailureTyped DEF TypeOK, Hashes
  <2>4. CASE /\ pendingHandoffs' = [pendingHandoffs EXCEPT ![r.character] =
                                        [connection |-> c, hash |-> r.hash]]
             /\ prepares' = Append(prepares, r.character)
             /\ UNCHANGED answers
    <3>1. [connection |-> c, hash |-> r.hash] \in PendingHandoff
      BY <2>2 DEF PendingHandoff
    <3> QED
      BY <2>1, <2>2, <2>4, <3>1 DEF TypeOK, Hashes
  <2> QED
    BY <1>7, <2>3, <2>4 DEF HandleSelectCharacter
<1> QED
  BY <1>1, <1>3, <1>4, <1>5, <1>6, <1>7

LEMMA StepTyped == TypeOK /\ [Next]_vars => TypeOK'
<1> SUFFICES ASSUME TypeOK, [Next]_vars PROVE TypeOK'
  OBVIOUS
<1>1. ASSUME NEW c \in Connections, Handle(c) PROVE TypeOK'
  BY <1>1, HandleTyped
<1>2. CASE PlayerEnterReady
  <2>1. PICK id : id = Head(prepares)
    OBVIOUS
  <2>2. PICK handoff : handoff = pendingHandoffs[id]
    OBVIOUS
  <2>3. /\ prepares # <<>> /\ prepares' = Tail(prepares)
        /\ UNCHANGED <<accounts, sessions, issued, characters, clock, requests, dead, client, troubles>>
    BY <1>2 DEF PlayerEnterReady, tables
  <2>4. id \in CharacterIds /\ prepares' \in Seq(CharacterIds)
    BY <2>1, <2>3, HeadTyped DEF TypeOK
  <2>5. CASE handoff = None
    <3>1. UNCHANGED <<pendingHandoffs, answers>>
      BY <1>2, <2>1, <2>2, <2>5 DEF PlayerEnterReady
    <3> QED
      BY <2>3, <2>4, <3>1 DEF TypeOK, Hashes
  <2>6. CASE handoff # None
    <3>1. handoff \in PendingHandoff
      BY <2>2, <2>4, <2>6 DEF TypeOK
    <3>2. handoff.connection \in Connections /\ handoff.hash \in Nat
      BY <3>1 DEF PendingHandoff
    <3>3. pendingHandoffs' = [pendingHandoffs EXCEPT ![id] = None]
          /\ \/ Answer(handoff.connection, Failure("ZoneConnectInfo"))
             \/ /\ characters[id] # None
                /\ Answer(handoff.connection,
                          [type |-> "ZoneConnectInfo", ok |-> TRUE, character |-> id,
                           token |-> handoff.hash, zone |-> characters[id].zone])
      BY <1>2, <2>1, <2>2, <2>6 DEF PlayerEnterReady
    <3>4. characters[id] # None => characters[id].zone \in Zones
      BY <2>4 DEF TypeOK, Character
    <3>5. characters[id] # None =>
              [type |-> "ZoneConnectInfo", ok |-> TRUE, character |-> id,
               token |-> handoff.hash, zone |-> characters[id].zone] \in Response
      BY <2>4, <3>2, <3>4 DEF Response
    <3>6. answers' \in [Connections -> Seq(Response)]
      BY <3>2, <3>3, <3>5, AnswerTyped, FailureTyped
    <3> QED
      BY <2>3, <2>4, <3>3, <3>6 DEF TypeOK, Hashes
  <2> QED
    BY <2>5, <2>6
<1>3. CASE Restart
  <2>1. troubles' \in 0 .. MaxTroubles
    BY <1>3, LimitsAssumption DEF Restart, TypeOK
  <2>2. /\ requests' \in [Connections -> Seq(Request)] /\ answers' \in [Connections -> Seq(Response)]
        /\ prepares' \in Seq(CharacterIds) /\ dead' \subseteq Connections
        /\ pendingHandoffs' \in [CharacterIds -> {None} \cup PendingHandoff]
    BY <1>3 DEF Restart, TypeOK
  <2> QED
    BY <1>3, <2>1, <2>2 DEF Restart, tables, TypeOK, Hashes
<1>4. ASSUME NEW k \in Clients, NEW wish \in Wishes[k], EnterWorld(k, wish) PROVE TypeOK'
  <2>1. PICK new : new = [step |-> "login", attempt |-> client[k].attempt + 1, wish |-> wish,
                          hash |-> 0, character |-> None, refused |-> "idle", troubled |-> FALSE]
    OBVIOUS
  <2>0. client[k] \in Run /\ client[k].attempt \in Nat /\ MaxAttempts[k] \in Nat
        /\ client[k].attempt < MaxAttempts[k]
    BY <1>4, LimitsAssumption DEF EnterWorld, TypeOK, Run
  <2>2. client[k].attempt + 1 \in 1 .. MaxAttempts[k]
    BY <2>0
  <2>3. new \in Run /\ new.attempt = client[k].attempt + 1 /\ new.wish = wish
    BY <2>0, <2>1, <2>2, WishTyped DEF Run, Steps
  <2>4. <<k, client[k].attempt + 1>> \in Connections
    BY <2>2 DEF Connections
  <2>5. LoginRequest(wish) \in Request /\ <<LoginRequest(wish)>> \in Seq(Request)
    <3>1. 0 \in Nat
      OBVIOUS
    <3>2. PICK r : r = LoginRequest(wish)
      OBVIOUS
    <3>3. r \in Request
      BY <3>1, <3>2, WishRequests
    <3> QED
      BY <3>2, <3>3
  <2>6. client' = [client EXCEPT ![k] = new]
        /\ requests' = [requests EXCEPT ![<<k, client[k].attempt + 1>>] = <<LoginRequest(wish)>>]
        /\ UNCHANGED <<accounts, sessions, issued, characters, clock, pendingHandoffs, prepares,
                       answers, dead, troubles>>
    BY <1>4, <2>1 DEF EnterWorld, tables
  <2>7. requests' \in [Connections -> Seq(Request)]
    BY <2>4, <2>5, <2>6 DEF TypeOK
  <2>8. client' \in [Clients -> Run] /\ client'[k] = new
        /\ \A j \in Clients \ {k} : client'[j] = client[j]
    BY <2>3, <2>6 DEF TypeOK
  <2>9. \A j \in Clients :
            /\ client'[j].attempt <= MaxAttempts[j]
            /\ client'[j].step \in Waiting \cup {"in"} => client'[j].attempt > 0
            /\ client'[j].attempt > 0 => client'[j].wish \in Wishes[j]
    <3>1. ASSUME NEW j \in Clients \ {k}
          PROVE  /\ client'[j].attempt <= MaxAttempts[j]
                 /\ client'[j].step \in Waiting \cup {"in"} => client'[j].attempt > 0
                 /\ client'[j].attempt > 0 => client'[j].wish \in Wishes[j]
      BY <2>8 DEF TypeOK
    <3> QED
      BY <2>0, <2>2, <2>3, <2>8, <3>1
  <2> QED
    BY <2>6, <2>7, <2>8, <2>9 DEF TypeOK, Hashes
<1>5. ASSUME NEW k \in Clients, Read(k) \/ Silence(k) \/ HalfAnAnswer(k) PROVE TypeOK'
  <2>1. /\ client[k].step \in Waiting /\ SameRun(k)
        /\ UNCHANGED <<accounts, sessions, issued, characters, clock, pendingHandoffs, prepares, dead>>
        /\ answers' \in [Connections -> Seq(Response)]
        /\ troubles' \in 0 .. MaxTroubles
    BY <1>5, ScriptOutcome DEF tables
  <2>2. \A j \in Clients : client'[j].attempt = client[j].attempt /\ client'[j].wish = client[j].wish
    BY <2>1 DEF SameRun
  <2>3. client[k].attempt > 0
    BY <2>1, RunTyped
  <2>4. \A j \in Clients \ {k} : client'[j] = client[j]
    BY <2>1 DEF SameRun
  <2>5. \A j \in Clients :
            /\ client'[j].attempt <= MaxAttempts[j]
            /\ client'[j].step \in Waiting \cup {"in"} => client'[j].attempt > 0
            /\ client'[j].attempt > 0 => client'[j].wish \in Wishes[j]
    BY <2>2, <2>3, <2>4 DEF TypeOK
  <2>6. client' \in [Clients -> Run] /\ requests' \in [Connections -> Seq(Request)]
    BY <2>1 DEF SameRun
  <2> QED
    BY <2>1, <2>5, <2>6 DEF TypeOK, Hashes
<1>6. ASSUME NEW k \in Clients, Quit(k) PROVE TypeOK'
  <2>1. [client[k] EXCEPT !.step = "idle"] \in Run
    BY DEF TypeOK, Run, Steps
  <2>2. client' = [client EXCEPT ![k] = [client[k] EXCEPT !.step = "idle"]]
        /\ UNCHANGED <<accounts, sessions, issued, characters, clock, pendingHandoffs, prepares,
                       requests, answers, dead, troubles>>
    BY <1>6 DEF Quit, tables, wire
  <2>3. client' \in [Clients -> Run] /\ \A j \in Clients \ {k} : client'[j] = client[j]
    BY <2>1, <2>2 DEF TypeOK
  <2>4. client'[k].attempt = client[k].attempt /\ client'[k].wish = client[k].wish
        /\ client'[k].step = "idle"
    BY <2>2 DEF TypeOK, Run
  <2>5. \A j \in Clients :
            /\ client'[j].attempt <= MaxAttempts[j]
            /\ client'[j].step \in Waiting \cup {"in"} => client'[j].attempt > 0
            /\ client'[j].attempt > 0 => client'[j].wish \in Wishes[j]
    BY <2>3, <2>4 DEF TypeOK, Waiting
  <2> QED
    BY <2>2, <2>3, <2>5 DEF TypeOK, Hashes
<1>7. ASSUME NEW id \in CharacterIds, NEW zone \in Zones, ZoneSaves(id, zone) PROVE TypeOK'
  <2>0. characters[id] \in Character /\ characters[id].progress < MaxProgress
    BY <1>7 DEF ZoneSaves, TypeOK
  <2>1. PICK row : row = [characters[id] EXCEPT !.progress = @ + 1, !.zone = zone]
    OBVIOUS
  <2>2. row \in Character
    <3>1. characters[id].progress + 1 \in 0 .. MaxProgress
      BY <2>0, LimitsAssumption DEF Character
    <3> QED
      BY <2>0, <2>1, <3>1 DEF Character
  <2>3. characters' = [characters EXCEPT ![id] = row]
    BY <1>7, <2>1 DEF ZoneSaves, TypeOK
  <2>4. characters' \in [CharacterIds -> {None} \cup Character]
    BY <2>2, <2>3 DEF TypeOK
  <2> QED
    BY <1>7, <2>4 DEF ZoneSaves, wire, TypeOK, Hashes
<1>8. CASE Tick
  BY <1>8, LimitsAssumption DEF Tick, tables, wire, TypeOK, Hashes
<1>9. CASE UNCHANGED vars
  BY <1>9 DEF vars, tables, wire, TypeOK, Hashes
<1> QED
  BY <1>1, <1>2, <1>3, <1>4, <1>5, <1>6, <1>7, <1>8, <1>9 DEF Next

\* Every variable keeps its type: whoever answers whom, however late.
THEOREM TypeCorrect == Spec => []TypeOK
  BY InitTyped, StepTyped, PTL DEF Spec

-----------------------------------------------------------------------------
(* The limit *)

\* What LimitHolds needs to be inductive: that the characters can be counted.
Counted ==
    \A user \in Users :
        IsFiniteSet(CharactersOf(user)) /\ Cardinality(CharactersOf(user)) <= CharacterLimit

LEMMA CharactersChange ==
    ASSUME TypeOK, [Next]_vars
    PROVE  \/ \A id \in CharacterIds : (characters'[id] # None) <=> (characters[id] # None)
           \/ \E user \in Users, r \in Request :
                  /\ r.type = "CreateCharacterRequest" /\ HasRoom(user) /\ MayBeCreated(r)
                  /\ characters' = CreateCharacter(user, r)
<1>1. ASSUME NEW c \in Connections, Handle(c), characters' # characters
      PROVE  \E user \in Users, r \in Request :
                 /\ r.type = "CreateCharacterRequest" /\ HasRoom(user) /\ MayBeCreated(r)
                 /\ characters' = CreateCharacter(user, r)
  <2>1. PICK r : r = Head(requests[c])
    OBVIOUS
  <2>2. r \in Request
    BY <1>1, <2>1, HeadTyped DEF Handle, TypeOK
  <2>3. HandleCreateCharacter(c, r)
    BY <1>1, <2>1 DEF Handle, HandleCreateAccount, HandleLogin, HandleCharacterList,
                      HandleSelectCharacter, tables
  <2>4. PICK user : user = sessions[r.hash].account
    OBVIOUS
  <2>5. /\ Live(r.hash) /\ HasRoom(user) /\ MayBeCreated(r)
        /\ characters' = CreateCharacter(user, r) /\ r.type = "CreateCharacterRequest"
    BY <1>1, <2>3, <2>4 DEF HandleCreateCharacter
  <2>6. user \in Users
    BY <2>2, <2>4, <2>5, RequestTyped, LiveTyped
  <2> QED
    BY <2>2, <2>5, <2>6
<1>2. ASSUME NEW id \in CharacterIds, NEW zone \in Zones, ZoneSaves(id, zone)
      PROVE  \A x \in CharacterIds : (characters'[x] # None) <=> (characters[x] # None)
  <2>1. PICK row : row = [characters[id] EXCEPT !.progress = @ + 1, !.zone = zone]
    OBVIOUS
  <2>2. characters[id] \in Character
    BY <1>2 DEF ZoneSaves, TypeOK
  <2>3. row \in Character
    <3>1. characters[id].progress + 1 \in 0 .. MaxProgress
      BY <1>2, <2>2, LimitsAssumption DEF ZoneSaves, Character
    <3> QED
      BY <2>1, <2>2, <3>1 DEF Character
  <2>4. characters' = [characters EXCEPT ![id] = row] /\ row # None
    BY <1>2, <2>1, <2>3, Records DEF ZoneSaves, TypeOK
  <2> QED
    BY <1>2, <2>4 DEF TypeOK, ZoneSaves
<1>3. ASSUME ~ (\E c \in Connections : Handle(c)),
             ~ (\E id \in CharacterIds, zone \in Zones : ZoneSaves(id, zone))
      PROVE  characters' = characters
  <2>1. ASSUME NEW k \in Clients, Read(k) \/ Silence(k) \/ HalfAnAnswer(k)
        PROVE  characters' = characters
    BY <2>1 DEF Read, Silence, HalfAnAnswer, tables
  <2> QED
    BY <1>3, <2>1 DEF Next, PlayerEnterReady, Restart, EnterWorld, Quit, Tick, vars, tables
<1> QED
  BY <1>1, <1>2, <1>3

LEMMA CountedInitially == Init => Counted
<1> SUFFICES ASSUME Init, NEW user \in Users
             PROVE  IsFiniteSet(CharactersOf(user)) /\ Cardinality(CharactersOf(user)) <= CharacterLimit
  BY DEF Counted
<1>1. CharactersOf(user) = {}
  BY DEF Init, CharactersOf
<1> QED
  BY <1>1, FS_EmptySet, LimitsAssumption

LEMMA CountedStep == TypeOK /\ Counted /\ [Next]_vars => Counted'
<1> SUFFICES ASSUME TypeOK, Counted, [Next]_vars, NEW owner \in Users
             PROVE  /\ IsFiniteSet(CharactersOf(owner)')
                    /\ Cardinality(CharactersOf(owner)') <= CharacterLimit
  BY DEF Counted
<1>0. IsFiniteSet(CharactersOf(owner)) /\ Cardinality(CharactersOf(owner)) <= CharacterLimit
  BY DEF Counted
<1>1. CASE \A id \in CharacterIds : (characters'[id] # None) <=> (characters[id] # None)
  <2>1. CharactersOf(owner)' = CharactersOf(owner)
    BY <1>1 DEF CharactersOf
  <2> QED
    BY <1>0, <2>1
<1>2. ASSUME NEW user \in Users, NEW r \in Request,
             r.type = "CreateCharacterRequest", HasRoom(user), MayBeCreated(r),
             characters' = CreateCharacter(user, r)
      PROVE  /\ IsFiniteSet(CharactersOf(owner)')
             /\ Cardinality(CharactersOf(owner)') <= CharacterLimit
  <2>1. PICK id : id = <<user, r.name>>
    OBVIOUS
  <2>2. /\ id \in CharacterIds /\ id[1] = user /\ characters'[id] # None
        /\ \A x \in CharacterIds \ {id} : characters'[x] = characters[x]
    BY <1>2, <2>1, CreateCharacterTyped
  <2>3. CASE owner # user
    <3>1. CharactersOf(owner)' = CharactersOf(owner)
      BY <2>2, <2>3 DEF CharactersOf
    <3> QED
      BY <1>0, <3>1
  <2>4. CASE owner = user
    <3>1. CharactersOf(owner)' = CharactersOf(owner) \cup {id}
      BY <2>2, <2>4 DEF CharactersOf
    <3>2. Cardinality(CharactersOf(owner)) < CharacterLimit
      BY <1>2, <2>4 DEF HasRoom
    <3>3. Cardinality(CharactersOf(owner)) \in Nat /\ CharacterLimit \in Nat
      BY <1>0, FS_CardinalityType, LimitsAssumption
    <3>4. /\ IsFiniteSet(CharactersOf(owner) \cup {id})
          /\ Cardinality(CharactersOf(owner) \cup {id})
                 <= Cardinality(CharactersOf(owner)) + 1
      <4>1. PICK some : some = CharactersOf(owner)
        OBVIOUS
      <4>2. /\ IsFiniteSet(some \cup {id})
            /\ Cardinality(some \cup {id}) = IF id \in some THEN Cardinality(some)
                                              ELSE Cardinality(some) + 1
        BY <1>0, <4>1, FS_AddElement
      <4> QED
        BY <3>3, <4>1, <4>2
    <3>5. Cardinality(CharactersOf(owner) \cup {id}) \in Nat
      BY <3>4, FS_CardinalityType
    <3> QED
      BY <3>1, <3>2, <3>3, <3>4, <3>5
  <2> QED
    BY <2>3, <2>4
<1> QED
  BY <1>1, <1>2, CharactersChange

\* However many clients create characters at once, and however often they try again after
\* a deadline, no account has more of them than CharacterLimit: handleClientPacket counts
\* and inserts in one handler.
THEOREM LimitIsKept == Spec => []LimitHolds
<1>1. TypeOK /\ Counted => LimitHolds
  BY DEF Counted, LimitHolds
<1>2. Spec => []Counted
  BY TypeCorrect, CountedInitially, CountedStep, PTL DEF Spec
<1> QED
  BY <1>1, <1>2, TypeCorrect, PTL

-----------------------------------------------------------------------------
(* What WorldLogin does with a request *)

\* The answer a to the request r, when it is given at once.
Reply(r, a) ==
    \/ /\ r.type = "CreateAccountRequest" /\ a.type = "CreateAccountResponse"
       /\ \/ accounts'[r.user] # None
          \/ ~ (WellFormed(r.user) /\ WellFormed(r.password))
    \/ /\ r.type = "LoginRequest" /\ a.type = "LoginResponse"
       /\ a.ok => a.hash = issued + 1 /\ issued' = issued + 1 /\ sessions' = IssueSession(r.user)
       /\ ~ a.ok => \/ accounts[r.user] = None
                    \/ accounts[r.user].banned
                    \/ accounts[r.user].password # r.password
    \/ /\ r.type = "CharacterListRequest" /\ a.type = "CharacterListResponse"
       /\ a.ok => Live(r.hash) /\ a.characters = CharactersOf(sessions[r.hash].account)
    \/ /\ r.type = "CreateCharacterRequest" /\ a.type = "CreateCharacterResponse"
       /\ a.ok => /\ Live(r.hash) /\ a.character = <<sessions[r.hash].account, r.name>>
                  /\ characters'[a.character] # None
       /\ ~ a.ok => \/ ~ Live(r.hash)
                    \/ ~ HasRoom(sessions[r.hash].account)
                    \/ ~ MayBeCreated(r)
    \/ r.type = "SelectCharacterRequest" /\ a.type = "ZoneConnectInfo" /\ ~ a.ok

\* A request is answered, or a zone is asked to prepare the character.
Handled(c, r) ==
    \/ /\ UNCHANGED pendingHandoffs
       /\ \E a \in Response :
              /\ Reply(r, a)
              /\ answers'[c] = IF Open(c) THEN Append(answers[c], a) ELSE answers[c]
    \/ /\ r.type = "SelectCharacterRequest" /\ Live(r.hash)
       /\ characters[r.character] # None
       /\ pendingHandoffs' = [pendingHandoffs EXCEPT ![r.character] =
                                  [connection |-> c, hash |-> r.hash]]
       /\ UNCHANGED answers

LEMMA HandleEffect ==
    ASSUME TypeOK, NEW c \in Connections, Handle(c), NEW r, r = Head(requests[c])
    PROVE  /\ r \in Request
           /\ requests[c] # <<>> /\ requests' = [requests EXCEPT ![c] = Tail(@)]
           /\ UNCHANGED <<clock, dead, client, troubles>>
           /\ \A d \in Connections \ {c} : answers'[d] = answers[d]
           /\ Handled(c, r)
<1>0. /\ r \in Request
      /\ requests[c] # <<>> /\ requests' = [requests EXCEPT ![c] = Tail(@)]
      /\ UNCHANGED <<clock, dead, client, troubles>>
  BY HeadTyped DEF Handle, TypeOK
<1>1. \/ HandleCreateAccount(c, r) \/ HandleLogin(c, r) \/ HandleCharacterList(c, r)
      \/ HandleCreateCharacter(c, r) \/ HandleSelectCharacter(c, r)
  BY DEF Handle
<1>2. ASSUME NEW a \in Response, Reply(r, a), Answer(c, a), UNCHANGED pendingHandoffs
      PROVE  Handled(c, r) /\ \A d \in Connections \ {c} : answers'[d] = answers[d]
  BY <1>2, AnswerTyped DEF Handled
<1>3. CASE HandleCreateAccount(c, r)
  <2>1. PICK created : created = (WellFormed(r.user) /\ WellFormed(r.password) /\ accounts[r.user] = None)
    OBVIOUS
  <2>2. created \in BOOLEAN
    BY <2>1
  <2>3. PICK a : a = [type |-> "CreateAccountResponse", ok |-> created]
    OBVIOUS
  <2>4. a \in Response
    BY <2>2, <2>3 DEF Response
  <2>5. /\ r.type = "CreateAccountRequest" /\ Answer(c, a) /\ UNCHANGED pendingHandoffs
        /\ accounts' = IF created
                       THEN [accounts EXCEPT ![r.user] = [password |-> r.password, banned |-> FALSE]]
                       ELSE accounts
    BY <1>3, <2>1, <2>3 DEF HandleCreateAccount
  <2>6. accounts'[r.user] # None \/ ~ (WellFormed(r.user) /\ WellFormed(r.password))
    <3>1. CASE created
      <4>1. r.user \in Users /\ r.password \in Passwords
        BY <1>0, <2>5, RequestTyped
      <4>2. [password |-> r.password, banned |-> FALSE] \in Account
        BY <4>1 DEF Account
      <4>3. accounts'[r.user] = [password |-> r.password, banned |-> FALSE]
        BY <2>5, <3>1, <4>1 DEF TypeOK
      <4> QED
        BY <4>2, <4>3, Records
    <3>2. CASE ~ created
      BY <2>1, <2>5, <3>2
    <3> QED
      BY <3>1, <3>2
  <2>7. Reply(r, a)
    BY <2>3, <2>5, <2>6 DEF Reply
  <2> QED
    BY <1>0, <1>2, <2>4, <2>5, <2>7
<1>4. CASE HandleLogin(c, r)
  <2>1. r.type = "LoginRequest" /\ UNCHANGED pendingHandoffs
    BY <1>4 DEF HandleLogin
  <2>2. CASE /\ accounts[r.user] # None /\ ~ accounts[r.user].banned
             /\ accounts[r.user].password = r.password
    <3>1. PICK a : a = [type |-> "LoginResponse", ok |-> TRUE, hash |-> issued + 1]
      OBVIOUS
    <3>2. issued + 1 \in Nat
      BY DEF TypeOK
    <3>3. a \in Response
      BY <3>1, <3>2 DEF Response
    <3>4. sessions' = IssueSession(r.user) /\ issued' = issued + 1 /\ Answer(c, a)
      BY <1>4, <2>2, <3>1 DEF HandleLogin
    <3>5. Reply(r, a)
      BY <2>1, <3>1, <3>4 DEF Reply
    <3> QED
      BY <1>0, <1>2, <2>1, <3>3, <3>4, <3>5
  <2>3. CASE ~ (/\ accounts[r.user] # None /\ ~ accounts[r.user].banned
                /\ accounts[r.user].password = r.password)
    <3>1. Answer(c, Failure("LoginResponse"))
      BY <1>4, <2>3 DEF HandleLogin
    <3>2. Reply(r, Failure("LoginResponse"))
      BY <2>1, <2>3 DEF Reply, Failure
    <3> QED
      BY <1>0, <1>2, <2>1, <3>1, <3>2, FailureTyped
  <2> QED
    BY <2>2, <2>3
<1>5. CASE HandleCharacterList(c, r)
  <2>1. r.type = "CharacterListRequest" /\ UNCHANGED pendingHandoffs
    BY <1>5 DEF HandleCharacterList
  <2>2. CASE Live(r.hash)
    <3>1. PICK a : a = [type |-> "CharacterListResponse", ok |-> TRUE,
                        characters |-> CharactersOf(sessions[r.hash].account)]
      OBVIOUS
    <3>2. a \in Response
      BY <3>1 DEF Response, CharactersOf
    <3>3. Answer(c, a)
      BY <1>5, <2>2, <3>1 DEF HandleCharacterList
    <3>4. Reply(r, a)
      BY <2>1, <2>2, <3>1 DEF Reply
    <3> QED
      BY <1>0, <1>2, <2>1, <3>2, <3>3, <3>4
  <2>3. CASE ~ Live(r.hash)
    <3>1. Answer(c, Failure("CharacterListResponse"))
      BY <1>5, <2>3 DEF HandleCharacterList
    <3>2. Reply(r, Failure("CharacterListResponse"))
      BY <2>1 DEF Reply, Failure
    <3> QED
      BY <1>0, <1>2, <2>1, <3>1, <3>2, FailureTyped
  <2> QED
    BY <2>2, <2>3
<1>6. CASE HandleCreateCharacter(c, r)
  <2>1. r.type = "CreateCharacterRequest" /\ UNCHANGED pendingHandoffs
    BY <1>6 DEF HandleCreateCharacter
  <2>2. PICK user : user = sessions[r.hash].account
    OBVIOUS
  <2>3. CASE Live(r.hash) /\ HasRoom(user) /\ MayBeCreated(r)
    <3>1. PICK a : a = [type |-> "CreateCharacterResponse", ok |-> TRUE,
                        character |-> <<user, r.name>>]
      OBVIOUS
    <3>2. characters' = CreateCharacter(user, r) /\ Answer(c, a)
      BY <1>6, <2>2, <2>3, <3>1 DEF HandleCreateCharacter
    <3>3. user \in Users
      BY <1>0, <2>1, <2>2, <2>3, RequestTyped, LiveTyped
    <3>4. <<user, r.name>> \in CharacterIds /\ characters'[<<user, r.name>>] # None
      BY <1>0, <2>1, <2>3, <3>2, <3>3, CreateCharacterTyped
    <3>5. a \in Response
      BY <3>1, <3>4 DEF Response
    <3>6. Reply(r, a)
      BY <2>1, <2>2, <2>3, <3>1, <3>4 DEF Reply
    <3> QED
      BY <1>0, <1>2, <2>1, <3>2, <3>5, <3>6
  <2>4. CASE ~ (Live(r.hash) /\ HasRoom(user) /\ MayBeCreated(r))
    <3>1. Answer(c, Failure("CreateCharacterResponse"))
      BY <1>6, <2>2, <2>4 DEF HandleCreateCharacter
    <3>2. Reply(r, Failure("CreateCharacterResponse"))
      BY <2>1, <2>2, <2>4 DEF Reply, Failure
    <3> QED
      BY <1>0, <1>2, <2>1, <3>1, <3>2, FailureTyped
  <2> QED
    BY <2>3, <2>4
<1>7. CASE HandleSelectCharacter(c, r)
  <2>1. r.type = "SelectCharacterRequest"
    BY <1>7 DEF HandleSelectCharacter
  <2>2. CASE Answer(c, Failure("ZoneConnectInfo")) /\ UNCHANGED <<pendingHandoffs, prepares>>
    <3>1. Reply(r, Failure("ZoneConnectInfo"))
      BY <2>1 DEF Reply, Failure
    <3> QED
      BY <1>0, <1>2, <2>2, <3>1, FailureTyped
  <2>3. CASE /\ Live(r.hash) /\ r.character \in CharactersOf(sessions[r.hash].account)
             /\ pendingHandoffs' = [pendingHandoffs EXCEPT ![r.character] =
                                        [connection |-> c, hash |-> r.hash]]
             /\ UNCHANGED answers
    BY <1>0, <2>1, <2>3 DEF Handled, CharactersOf
  <2> QED
    BY <1>7, <2>2, <2>3 DEF HandleSelectCharacter
<1> QED
  BY <1>1, <1>3, <1>4, <1>5, <1>6, <1>7

\* A zone has answered: the client that asked last is told, with the hash it asked with.
LEMMA ReadyEffect ==
    ASSUME TypeOK, PlayerEnterReady
    PROVE  /\ UNCHANGED <<requests, client, dead>>
           /\ \E id \in CharacterIds :
                  \/ UNCHANGED <<pendingHandoffs, answers>>
                  \/ /\ pendingHandoffs[id] # None
                     /\ pendingHandoffs[id].connection \in Connections
                     /\ pendingHandoffs' = [pendingHandoffs EXCEPT ![id] = None]
                     /\ \A d \in Connections \ {pendingHandoffs[id].connection} :
                            answers'[d] = answers[d]
                     /\ \E a \in Response :
                            /\ a.type = "ZoneConnectInfo"
                            /\ a.ok => /\ a.character = id /\ a.token = pendingHandoffs[id].hash
                                       /\ characters[id] # None
                            /\ answers'[pendingHandoffs[id].connection] =
                                   IF Open(pendingHandoffs[id].connection)
                                   THEN Append(answers[pendingHandoffs[id].connection], a)
                                   ELSE answers[pendingHandoffs[id].connection]
<1>1. PICK id : id = Head(prepares)
  OBVIOUS
<1>2. PICK handoff : handoff = pendingHandoffs[id]
  OBVIOUS
<1>3. id \in CharacterIds /\ UNCHANGED <<requests, client, dead>>
  BY <1>1, HeadTyped DEF PlayerEnterReady, TypeOK
<1>4. CASE handoff = None
  BY <1>1, <1>2, <1>3, <1>4 DEF PlayerEnterReady
<1>5. CASE handoff # None
  <2>1. handoff.connection \in Connections /\ handoff.hash \in Nat
    BY <1>2, <1>3, <1>5 DEF TypeOK, PendingHandoff
  <2>2. pendingHandoffs' = [pendingHandoffs EXCEPT ![id] = None]
        /\ \/ Answer(handoff.connection, Failure("ZoneConnectInfo"))
           \/ /\ characters[id] # None
              /\ Answer(handoff.connection,
                        [type |-> "ZoneConnectInfo", ok |-> TRUE, character |-> id,
                         token |-> handoff.hash, zone |-> characters[id].zone])
    BY <1>1, <1>2, <1>5 DEF PlayerEnterReady
  <2>3. CASE Answer(handoff.connection, Failure("ZoneConnectInfo"))
    <3>1. Failure("ZoneConnectInfo").type = "ZoneConnectInfo" /\ ~ Failure("ZoneConnectInfo").ok
      BY DEF Failure
    <3> QED
      BY <1>2, <1>3, <1>5, <2>1, <2>2, <2>3, <3>1, FailureTyped, AnswerTyped
  <2>4. CASE /\ characters[id] # None
             /\ Answer(handoff.connection,
                       [type |-> "ZoneConnectInfo", ok |-> TRUE, character |-> id,
                        token |-> handoff.hash, zone |-> characters[id].zone])
    <3>1. PICK a : a = [type |-> "ZoneConnectInfo", ok |-> TRUE, character |-> id,
                        token |-> handoff.hash, zone |-> characters[id].zone]
      OBVIOUS
    <3>2. characters[id].zone \in Zones
      BY <1>3, <2>4 DEF TypeOK, Character
    <3>3. a \in Response
      BY <1>3, <2>1, <3>1, <3>2 DEF Response
    <3> QED
      BY <1>2, <1>3, <1>5, <2>1, <2>2, <2>4, <3>1, <3>3, AnswerTyped
  <2> QED
    BY <2>2, <2>3, <2>4
<1> QED
  BY <1>4, <1>5

\* Rows are never taken back, but for sessions that are over; accounts never change.
LEMMA TablesGrow ==
    ASSUME TypeOK, [Next]_vars
    PROVE  /\ \A h \in Hashes : h \in Hashes' /\ sessions'[h] \in {None, sessions[h]}
           /\ \A id \in CharacterIds : characters[id] # None => characters'[id] # None
           /\ clock' >= clock
           /\ \A u \in Users :
                  /\ accounts[u] # None => accounts'[u] = accounts[u]
                  /\ accounts[u] = None /\ accounts'[u] # None =>
                         WellFormed(u) /\ WellFormed(accounts'[u].password)
<1>1. \A id \in CharacterIds : characters[id] # None => characters'[id] # None
  BY CharactersChange, CreateCharacterTyped
<1>2. ASSUME NEW c \in Connections, Handle(c)
      PROVE  /\ clock' = clock
             /\ \/ UNCHANGED accounts
                \/ \E r \in Request :
                       /\ r.user \in Users
                       /\ accounts[r.user] = None /\ WellFormed(r.user) /\ WellFormed(r.password)
                       /\ accounts' = [accounts EXCEPT ![r.user] =
                                           [password |-> r.password, banned |-> FALSE]]
             /\ \/ UNCHANGED <<sessions, issued>>
                \/ \E user \in Users : sessions' = IssueSession(user) /\ issued' = issued + 1
  <2>1. PICK r : r = Head(requests[c])
    OBVIOUS
  <2>2. r \in Request
    BY <1>2, <2>1, HeadTyped DEF Handle, TypeOK
  <2>3. \/ HandleCreateAccount(c, r) \/ HandleLogin(c, r) \/ HandleCharacterList(c, r)
        \/ HandleCreateCharacter(c, r) \/ HandleSelectCharacter(c, r)
    BY <1>2, <2>1 DEF Handle
  <2>4. clock' = clock
    BY <1>2 DEF Handle
  <2>5. CASE HandleCreateAccount(c, r)
    <3>1. r.user \in Users
      BY <2>2, <2>5, RequestTyped DEF HandleCreateAccount
    <3> QED
      BY <2>2, <2>4, <2>5, <3>1 DEF HandleCreateAccount
  <2>6. CASE HandleLogin(c, r)
    <3>1. r.user \in Users
      BY <2>2, <2>6, RequestTyped DEF HandleLogin
    <3> QED
      BY <2>4, <2>6, <3>1 DEF HandleLogin
  <2>7. CASE HandleCharacterList(c, r) \/ HandleCreateCharacter(c, r) \/ HandleSelectCharacter(c, r)
    BY <2>4, <2>7 DEF HandleCharacterList, HandleCreateCharacter, HandleSelectCharacter, tables
  <2> QED
    BY <2>3, <2>5, <2>6, <2>7
<1>3. ASSUME ~ \E c \in Connections : Handle(c)
      PROVE  UNCHANGED <<accounts, sessions, issued>> /\ clock' >= clock
  <2>1. clock \in Int
    BY LimitsAssumption DEF TypeOK
  <2>2. ASSUME NEW k \in Clients, Read(k) \/ Silence(k) \/ HalfAnAnswer(k)
        PROVE  UNCHANGED <<accounts, sessions, issued>> /\ clock' = clock
    BY <2>2 DEF Read, Silence, HalfAnAnswer, tables
  <2>3. CASE Tick
    BY <2>1, <2>3 DEF Tick, tables
  <2>4. CASE PlayerEnterReady \/ Restart \/ UNCHANGED vars
    BY <2>1, <2>4 DEF PlayerEnterReady, Restart, vars, tables
  <2>5. ASSUME NEW k \in Clients, NEW wish \in Wishes[k], EnterWorld(k, wish)
        PROVE  UNCHANGED <<accounts, sessions, issued>> /\ clock' = clock
    BY <2>5 DEF EnterWorld, tables
  <2>6. ASSUME NEW k \in Clients, Quit(k)
        PROVE  UNCHANGED <<accounts, sessions, issued>> /\ clock' = clock
    BY <2>6 DEF Quit, tables
  <2>7. ASSUME NEW id \in CharacterIds, NEW zone \in Zones, ZoneSaves(id, zone)
        PROVE  UNCHANGED <<accounts, sessions, issued>> /\ clock' = clock
    BY <2>7 DEF ZoneSaves
  <2> QED
    BY <1>3, <2>1, <2>2, <2>3, <2>4, <2>5, <2>6, <2>7 DEF Next
<1>4. clock' >= clock
  BY <1>2, <1>3, LimitsAssumption DEF TypeOK
<1>5. \A h \in Hashes : h \in Hashes' /\ sessions'[h] \in {None, sessions[h]}
  <2>1. CASE UNCHANGED <<sessions, issued>>
    BY <2>1 DEF Hashes
  <2> QED
    BY <1>2, <1>3, <2>1, IssueSessionTyped
<1>6. ASSUME NEW u \in Users
      PROVE  /\ accounts[u] # None => accounts'[u] = accounts[u]
             /\ accounts[u] = None /\ accounts'[u] # None =>
                    WellFormed(u) /\ WellFormed(accounts'[u].password)
  <2>1. CASE UNCHANGED accounts
    BY <2>1
  <2>2. ASSUME NEW r \in Request, r.user \in Users,
               accounts[r.user] = None, WellFormed(r.user), WellFormed(r.password),
               accounts' = [accounts EXCEPT ![r.user] = [password |-> r.password, banned |-> FALSE]]
        PROVE  /\ accounts[u] # None => accounts'[u] = accounts[u]
               /\ accounts[u] = None /\ accounts'[u] # None =>
                      WellFormed(u) /\ WellFormed(accounts'[u].password)
    BY <2>2 DEF TypeOK
  <2> QED
    BY <1>2, <1>3, <2>1, <2>2
<1> QED
  BY <1>1, <1>4, <1>5, <1>6

-----------------------------------------------------------------------------
(* Everybody gets what he typed *)

Packets(queue) == {queue[i] : i \in DOMAIN queue}

\* The run has begun.
Active(k) == client[k].attempt > 0

\* The character its user named, in the account its user named.
Named(k) == <<client[k].wish.user, client[k].wish.name>>

\* The hash is issued, and if its session is still there it is one of the account named.
OfItsUser(k, hash) ==
    /\ hash \in Hashes
    /\ sessions[hash] # None => sessions[hash].account = client[k].wish.user

\* A request asks for what the user typed, with the session of the run.
RequestFits(k, r) ==
    /\ r.type \in {"LoginRequest", "CreateAccountRequest"} =>
           r.user = client[k].wish.user /\ r.password = client[k].wish.password
    /\ r.type \in {"CreateCharacterRequest", "CharacterListRequest", "SelectCharacterRequest"} =>
           r.hash = client[k].hash /\ client[k].hash # 0
    /\ r.type = "CreateCharacterRequest" =>
           /\ r.name = client[k].wish.name
           /\ r.race = client[k].wish.race /\ r.class = client[k].wish.class
    /\ r.type = "SelectCharacterRequest" => r.character = Named(k)

\* An answer is about what was asked for.
ResponseFits(k, a) ==
    a.ok =>
        /\ a.type = "LoginResponse" => OfItsUser(k, a.hash)
        /\ a.type = "CharacterListResponse" =>
               \A id \in a.characters : id[1] = client[k].wish.user /\ characters[id] # None
        /\ a.type = "CreateCharacterResponse" =>
               a.character = Named(k) /\ characters[Named(k)] # None
        /\ a.type = "ZoneConnectInfo" =>
               /\ a.character = Named(k) /\ characters[Named(k)] # None
               /\ a.token = client[k].hash /\ client[k].hash # 0

\* So is what WorldLogin remembers of it until the zone answers.
HandoffFits(k, id) ==
    pendingHandoffs[id] # None /\ pendingHandoffs[id].connection = Conn(k) =>
        /\ id = Named(k) /\ characters[id] # None
        /\ pendingHandoffs[id].hash = client[k].hash /\ client[k].hash # 0

ClientFits(k) ==
    /\ client[k].hash # 0 => OfItsUser(k, client[k].hash)
    /\ client[k].step \in {"create", "list", "select", "in"} => client[k].hash # 0
    /\ client[k].step \in {"login", "register", "relogin"} => client[k].hash = 0
    /\ client[k].step = "in" => client[k].character = Named(k) /\ characters[Named(k)] # None

\* Everything a run has to do with is about what its user typed.
Fits(k) ==
    /\ ClientFits(k)
    /\ Active(k) =>
           /\ \A r \in Packets(requests[Conn(k)]) : RequestFits(k, r)
           /\ \A a \in Packets(answers[Conn(k)]) : ResponseFits(k, a)
           /\ \A id \in CharacterIds : HandoffFits(k, id)

\* Nothing has happened on the connection of a run that is still to come.
Unused(c) ==
    /\ requests[c] = <<>> /\ answers[c] = <<>>
    /\ \A id \in CharacterIds : pendingHandoffs[id] # None => pendingHandoffs[id].connection # c

UnusedAhead == \A c \in Connections : c[2] > client[c[1]].attempt => Unused(c)

\* An answer is about to give the run the hash.
Promised(k, hash) ==
    /\ Active(k)
    /\ \E a \in Packets(answers[Conn(k)]) : a.type = "LoginResponse" /\ a.ok /\ a.hash = hash

\* The run has the hash, or will have it.
Owns(k, hash) == (hash = client[k].hash /\ hash # 0) \/ Promised(k, hash)

Apart == \A j, k \in Clients : \A hash \in Hashes : Owns(j, hash) /\ Owns(k, hash) => j = k

WishInv == UnusedAhead /\ Apart /\ \A k \in Clients : Fits(k)

LEMMA NoPackets == Packets(<<>>) = {}
  BY DEF Packets

LEMMA OnePacket == \A p : Packets(<<p>>) = {p}
  BY DEF Packets

LEMMA PacketsIn ==
    ASSUME NEW S, NEW queue \in Seq(S)
    PROVE  Packets(queue) \subseteq S
  BY DEF Packets

LEMMA PacketsTaken ==
    ASSUME NEW S, NEW queue \in Seq(S), queue # <<>>
    PROVE  Head(queue) \in Packets(queue) /\ Packets(Tail(queue)) \subseteq Packets(queue)
<1>1. Head(queue) = queue[1] /\ 1 \in DOMAIN queue
  OBVIOUS
<1>2. \A i \in DOMAIN Tail(queue) : i + 1 \in DOMAIN queue /\ Tail(queue)[i] = queue[i + 1]
  OBVIOUS
<1> QED
  BY <1>1, <1>2 DEF Packets

LEMMA PacketsSent ==
    ASSUME NEW S, NEW queue \in Seq(S), NEW p \in S
    PROVE  Packets(Append(queue, p)) = Packets(queue) \cup {p}
<1> DEFINE longer == Append(queue, p)
<1>1. /\ \A i \in DOMAIN longer : (i \in DOMAIN queue /\ longer[i] = queue[i]) \/ longer[i] = p
      /\ \A i \in DOMAIN queue : i \in DOMAIN longer /\ longer[i] = queue[i]
      /\ Len(queue) + 1 \in DOMAIN longer /\ longer[Len(queue) + 1] = p
  OBVIOUS
<1> HIDE DEF longer
<1>2. Packets(longer) = Packets(queue) \cup {p}
  BY <1>1 DEF Packets
<1> QED
  BY <1>2 DEF longer

LEMMA NamedTyped ==
    ASSUME TypeOK, NEW k \in Clients, Active(k)
    PROVE  /\ client[k].wish \in Wishes[k] /\ client[k].wish.user \in Users
           /\ Named(k) \in CharacterIds
           /\ Conn(k) \in Connections
           /\ requests[Conn(k)] \in Seq(Request) /\ answers[Conn(k)] \in Seq(Response)
<1>1. client[k].wish \in Wishes[k] /\ Conn(k) \in Connections
  BY ConnTyped DEF TypeOK, Active
<1>2. client[k].wish.user \in Users /\ client[k].wish.name \in Names
  BY <1>1, WishTyped
<1> QED
  BY <1>1, <1>2 DEF Named, CharacterIds, TypeOK

LEMMA OfItsUserKept ==
    ASSUME TypeOK, [Next]_vars, NEW k \in Clients, NEW hash, OfItsUser(k, hash),
           client'[k].wish = client[k].wish
    PROVE  OfItsUser(k, hash)'
<1>1. hash \in Hashes' /\ sessions'[hash] \in {None, sessions[hash]}
  BY TablesGrow DEF OfItsUser
<1> QED
  BY <1>1 DEF OfItsUser

\* What fitted goes on to fit, as long as the run keeps its hash.
LEMMA FitsKept ==
    ASSUME TypeOK, [Next]_vars, NEW k \in Clients, Active(k), Fits(k), ClientFits(k)',
           client'[k].attempt = client[k].attempt, client'[k].wish = client[k].wish,
           client'[k].hash = client[k].hash,
           \A r \in Packets(requests'[Conn(k)]) : r \in Packets(requests[Conn(k)]) \/ RequestFits(k, r)',
           \A a \in Packets(answers'[Conn(k)]) : a \in Packets(answers[Conn(k)]) \/ ResponseFits(k, a)',
           \A id \in CharacterIds :
               pendingHandoffs'[id] \in {None, pendingHandoffs[id]} \/ HandoffFits(k, id)'
    PROVE  Fits(k)'
<1>1. Conn(k)' = Conn(k) /\ Named(k)' = Named(k) /\ Active(k)'
  BY DEF Conn, Named, Active
<1>2. Named(k) \in CharacterIds /\ answers[Conn(k)] \in Seq(Response)
  BY NamedTyped
<1>3. \A id \in CharacterIds : characters[id] # None => characters'[id] # None
  BY TablesGrow
<1>4. ASSUME NEW r \in Packets(requests'[Conn(k)]) PROVE RequestFits(k, r)'
  <2>1. CASE r \in Packets(requests[Conn(k)])
    <3>1. RequestFits(k, r)
      BY <2>1 DEF Fits
    <3> QED
      BY <1>1, <3>1 DEF RequestFits
  <2> QED
    BY <1>4, <2>1
<1>5. ASSUME NEW a \in Packets(answers'[Conn(k)]) PROVE ResponseFits(k, a)'
  <2>1. CASE a \in Packets(answers[Conn(k)])
    <3>1. ResponseFits(k, a) /\ a \in Response
      BY <1>2, <2>1, PacketsIn DEF Fits
    <3>2. CASE a.ok /\ a.type = "LoginResponse"
      <4>1. OfItsUser(k, a.hash)'
        BY <3>1, <3>2, OfItsUserKept DEF ResponseFits
      <4> QED
        BY <3>2, <4>1 DEF ResponseFits
    <3>3. CASE a.ok /\ a.type = "CharacterListResponse"
      <4>1. a.characters \in SUBSET CharacterIds
        BY <3>1, <3>3, ResponseTyped
      <4> QED
        BY <1>3, <3>1, <3>3, <4>1 DEF ResponseFits
    <3>4. CASE a.ok /\ a.type \in {"CreateCharacterResponse", "ZoneConnectInfo"}
      BY <1>1, <1>2, <1>3, <3>1, <3>4 DEF ResponseFits
    <3> QED
      BY <3>2, <3>3, <3>4 DEF ResponseFits
  <2> QED
    BY <1>5, <2>1
<1>6. ASSUME NEW id \in CharacterIds PROVE HandoffFits(k, id)'
  <2>1. CASE pendingHandoffs'[id] \in {None, pendingHandoffs[id]}
    <3>1. HandoffFits(k, id)
      BY DEF Fits
    <3> QED
      BY <1>1, <1>3, <2>1, <3>1 DEF HandoffFits
  <2> QED
    BY <2>1
<1> QED
  BY <1>1, <1>4, <1>5, <1>6 DEF Fits

\* A run that does nothing itself.
LEMMA ClientFitsKept ==
    ASSUME TypeOK, [Next]_vars, NEW k \in Clients, ClientFits(k), client'[k] = client[k],
           client[k].step = "in" => Active(k)
    PROVE  ClientFits(k)'
<1>1. client[k].hash # 0 => OfItsUser(k, client[k].hash)'
  BY OfItsUserKept DEF ClientFits
<1>2. client[k].step = "in" => Named(k) \in CharacterIds
  BY NamedTyped
<1>3. characters[Named(k)] # None /\ client[k].step = "in" => characters'[Named(k)] # None
  BY <1>2, TablesGrow
<1> QED
  BY <1>1, <1>3 DEF ClientFits, Named

LEMMA InIsActive ==
    ASSUME TypeOK, NEW k \in Clients, client[k].step \in Waiting \cup {"in"}
    PROVE  Active(k)
  BY DEF TypeOK, Active

LEMMA SameClientFits ==
    ASSUME TypeOK, [Next]_vars, NEW k \in Clients, Fits(k), client'[k] = client[k],
           Active(k) =>
               /\ \A r \in Packets(requests'[Conn(k)]) :
                      r \in Packets(requests[Conn(k)]) \/ RequestFits(k, r)'
               /\ \A a \in Packets(answers'[Conn(k)]) :
                      a \in Packets(answers[Conn(k)]) \/ ResponseFits(k, a)'
               /\ \A id \in CharacterIds :
                      pendingHandoffs'[id] \in {None, pendingHandoffs[id]} \/ HandoffFits(k, id)'
    PROVE  Fits(k)'
<1>1. ClientFits(k)'
  BY ClientFitsKept, InIsActive DEF Fits
<1>2. CASE Active(k)
  BY <1>1, <1>2, FitsKept
<1>3. CASE ~ Active(k)
  <2>1. ~ Active(k)'
    BY <1>3 DEF Active
  <2> QED
    BY <1>1, <2>1 DEF Fits
<1> QED
  BY <1>2, <1>3

LEMMA OwnedIsIssued ==
    ASSUME TypeOK, NEW k \in Clients, Fits(k), NEW hash, Owns(k, hash)
    PROVE  hash \in Hashes
  BY DEF Fits, ClientFits, ResponseFits, OfItsUser, Owns, Promised

\* A hash has one owner, as long as nobody comes to it who had not been promised it.
LEMMA ApartKept ==
    ASSUME TypeOK, WishInv,
           \A j, k \in Clients : \A hash :
               /\ Owns(k, hash)' => Owns(k, hash) \/ hash = issued + 1
               /\ hash = issued + 1 /\ Owns(j, hash)' /\ Owns(k, hash)' => j = k
    PROVE  Apart'
<1> SUFFICES ASSUME NEW j \in Clients, NEW k \in Clients, NEW hash, Owns(j, hash)', Owns(k, hash)'
             PROVE  j = k
  BY DEF Apart
<1>1. CASE hash = issued + 1
  BY <1>1
<1>2. CASE hash # issued + 1
  <2>1. Owns(j, hash) /\ Owns(k, hash)
    BY <1>2
  <2>2. hash \in Hashes
    BY <2>1, OwnedIsIssued DEF WishInv
  <2> QED
    BY <2>1, <2>2 DEF WishInv, Apart
<1> QED
  BY <1>1, <1>2

LEMMA ReplyFits ==
    ASSUME TypeOK, [Next]_vars, NEW k \in Clients, Active(k), Fits(k), client' = client,
           NEW r \in Request, RequestFits(k, r), NEW a \in Response, Reply(r, a)
    PROVE  /\ ResponseFits(k, a)'
           /\ a.type = "LoginResponse" /\ a.ok => a.hash = issued + 1
<1>1. Named(k)' = Named(k) /\ Named(k) \in CharacterIds /\ client[k].wish.user \in Users
  BY NamedTyped DEF Named
<1>2. /\ a.type = "LoginResponse" /\ a.ok => a.hash = issued + 1
      /\ a.type = "ZoneConnectInfo" => ~ a.ok
  BY DEF Reply
<1>3. CASE a.type = "LoginResponse" /\ a.ok
  <2>1. /\ a.hash = issued + 1 /\ issued' = issued + 1 /\ sessions' = IssueSession(r.user)
        /\ r.type = "LoginRequest"
    BY <1>3 DEF Reply
  <2>2. r.user = client[k].wish.user /\ r.user \in Users
    BY <1>1, <2>1 DEF RequestFits
  <2>3. sessions'[issued + 1] = [account |-> r.user, expires |-> clock + SessionLife]
    BY <2>1, <2>2, IssueSessionTyped
  <2>4. a.hash \in Hashes' /\ sessions'[a.hash].account = client'[k].wish.user
    BY <2>1, <2>2, <2>3 DEF Hashes, TypeOK
  <2> QED
    BY <1>2, <1>3, <2>4 DEF ResponseFits, OfItsUser
<1>4. ASSUME r.type \in {"CharacterListRequest", "CreateCharacterRequest"}, Live(r.hash)
      PROVE  sessions[r.hash].account = client[k].wish.user
  <2>1. r.hash = client[k].hash /\ client[k].hash # 0
    BY <1>4 DEF RequestFits
  <2> QED
    BY <1>4, <2>1 DEF Fits, ClientFits, OfItsUser, Live
<1>5. CASE a.type = "CharacterListResponse" /\ a.ok
  <2>1. /\ r.type = "CharacterListRequest" /\ Live(r.hash)
        /\ a.characters = CharactersOf(sessions[r.hash].account)
    BY <1>5 DEF Reply
  <2>2. \A id \in a.characters :
            id \in CharacterIds /\ id[1] = client[k].wish.user /\ characters[id] # None
    BY <1>4, <2>1 DEF CharactersOf
  <2>3. \A id \in a.characters : id[1] = client'[k].wish.user /\ characters'[id] # None
    BY <2>2, TablesGrow
  <2> QED
    BY <1>2, <1>5, <2>3 DEF ResponseFits
<1>6. CASE a.type = "CreateCharacterResponse" /\ a.ok
  <2>1. /\ r.type = "CreateCharacterRequest" /\ Live(r.hash)
        /\ a.character = <<sessions[r.hash].account, r.name>>
        /\ characters'[a.character] # None
    BY <1>6 DEF Reply
  <2>2. a.character = Named(k)
    BY <1>4, <2>1 DEF RequestFits, Named
  <2> QED
    BY <1>1, <1>2, <1>6, <2>1, <2>2 DEF ResponseFits
<1> QED
  BY <1>2, <1>3, <1>5, <1>6 DEF ResponseFits

LEMMA HandleWish ==
    ASSUME TypeOK, WishInv, NEW c \in Connections, Handle(c)
    PROVE  WishInv'
<1>0. [Next]_vars
  BY DEF Next
<1>1. PICK r : r = Head(requests[c])
  OBVIOUS
<1>2. /\ r \in Request
      /\ requests[c] # <<>> /\ requests' = [requests EXCEPT ![c] = Tail(@)]
      /\ client' = client
      /\ \A d \in Connections \ {c} : answers'[d] = answers[d]
      /\ Handled(c, r)
  BY <1>1, HandleEffect
<1>3. /\ requests \in [Connections -> Seq(Request)] /\ answers \in [Connections -> Seq(Response)]
      /\ pendingHandoffs \in [CharacterIds -> {None} \cup PendingHandoff]
  BY DEF TypeOK
<1>4. /\ \A d \in Connections \ {c} : requests'[d] = requests[d]
      /\ requests'[c] = Tail(requests[c])
      /\ r \in Packets(requests[c]) /\ Packets(requests'[c]) \subseteq Packets(requests[c])
  BY <1>1, <1>2, <1>3, PacketsTaken
<1>5. \A id \in CharacterIds :
          \/ pendingHandoffs'[id] = pendingHandoffs[id]
          \/ /\ r.type = "SelectCharacterRequest" /\ id = r.character /\ characters[id] # None
             /\ pendingHandoffs'[id].connection = c /\ pendingHandoffs'[id].hash = r.hash
  BY <1>2, <1>3 DEF Handled
<1>6. \/ answers'[c] = answers[c]
      \/ \E a \in Response : /\ Reply(r, a) /\ Open(c)
                             /\ answers'[c] = Append(answers[c], a)
  BY <1>2 DEF Handled
<1>7. \A k \in Clients : /\ Conn(k)' = Conn(k) /\ Active(k)' = Active(k) /\ Named(k)' = Named(k)
                         /\ Active(k) => Conn(k) \in Connections
  BY <1>2, NamedTyped DEF Conn, Active, Named
<1>8. ASSUME NEW k \in Clients, Active(k), Conn(k) = c
      PROVE  /\ RequestFits(k, r)
             /\ \A a \in Packets(answers'[c]) :
                    \/ a \in Packets(answers[c])
                    \/ /\ ResponseFits(k, a)'
                       /\ a.type = "LoginResponse" /\ a.ok => a.hash = issued + 1
  <2>1. RequestFits(k, r) /\ Fits(k)
    BY <1>4, <1>8 DEF WishInv, Fits
  <2>2. CASE answers'[c] = answers[c]
    BY <2>1, <2>2
  <2>3. ASSUME NEW a \in Response, Reply(r, a), answers'[c] = Append(answers[c], a)
        PROVE  \A b \in Packets(answers'[c]) :
                   \/ b \in Packets(answers[c])
                   \/ /\ ResponseFits(k, b)'
                      /\ b.type = "LoginResponse" /\ b.ok => b.hash = issued + 1
    <3>1. Packets(answers'[c]) = Packets(answers[c]) \cup {a}
      <4>1. PICK queue : queue = answers[c]
        OBVIOUS
      <4>2. queue \in Seq(Response)
        BY <1>3, <4>1
      <4> QED
        BY <2>3, <4>1, <4>2, PacketsSent
    <3>2. ResponseFits(k, a)' /\ (a.type = "LoginResponse" /\ a.ok => a.hash = issued + 1)
      BY <1>0, <1>2, <1>8, <2>1, <2>3, ReplyFits
    <3> QED
      BY <3>1, <3>2
  <2> QED
    BY <1>6, <2>1, <2>2, <2>3
<1>9. ASSUME NEW k \in Clients PROVE Fits(k)'
  <2>1. Fits(k) /\ client'[k] = client[k]
    BY <1>2 DEF WishInv
  <2>2. ASSUME Active(k), Conn(k) = c
        PROVE  /\ \A p \in Packets(requests'[Conn(k)]) : p \in Packets(requests[Conn(k)])
               /\ \A a \in Packets(answers'[Conn(k)]) :
                      a \in Packets(answers[Conn(k)]) \/ ResponseFits(k, a)'
               /\ \A id \in CharacterIds :
                      pendingHandoffs'[id] \in {None, pendingHandoffs[id]} \/ HandoffFits(k, id)'
    <3>1. ASSUME NEW id \in CharacterIds, pendingHandoffs'[id] # pendingHandoffs[id]
          PROVE  HandoffFits(k, id)'
      <4>1. /\ r.type = "SelectCharacterRequest" /\ id = r.character /\ characters[id] # None
            /\ pendingHandoffs'[id].hash = r.hash
        BY <1>5, <3>1
      <4>2. id = Named(k) /\ r.hash = client[k].hash /\ client[k].hash # 0
        BY <1>8, <2>2, <4>1 DEF RequestFits
      <4>3. characters'[id] # None
        BY <1>0, <4>1, TablesGrow
      <4> QED
        BY <1>7, <2>1, <4>1, <4>2, <4>3 DEF HandoffFits
    <3> QED
      BY <1>4, <1>8, <2>2, <3>1
  <2>3. ASSUME Active(k), Conn(k) # c
        PROVE  /\ \A p \in Packets(requests'[Conn(k)]) : p \in Packets(requests[Conn(k)])
               /\ \A a \in Packets(answers'[Conn(k)]) : a \in Packets(answers[Conn(k)])
               /\ \A id \in CharacterIds :
                      pendingHandoffs'[id] \in {None, pendingHandoffs[id]} \/ HandoffFits(k, id)'
    <3>1. ASSUME NEW id \in CharacterIds, pendingHandoffs'[id] # pendingHandoffs[id]
          PROVE  HandoffFits(k, id)'
      BY <1>5, <1>7, <2>3, <3>1 DEF HandoffFits
    <3> QED
      BY <1>2, <1>4, <1>7, <2>3, <3>1
  <2> QED
    BY <1>0, <2>1, <2>2, <2>3, SameClientFits
<1>10. UnusedAhead'
  <2>1. ASSUME NEW d \in Connections, d[2] > client[d[1]].attempt PROVE Unused(d)'
    <3>1. Unused(d) /\ d # c
      BY <1>2, <2>1 DEF WishInv, UnusedAhead, Unused
    <3> QED
      BY <1>2, <1>4, <1>5, <3>1 DEF Unused
  <2> QED
    BY <1>2, <2>1 DEF UnusedAhead
<1>11. Apart'
  <2>1. ASSUME NEW k \in Clients, NEW hash, Owns(k, hash)'
        PROVE  Owns(k, hash) \/ (hash = issued + 1 /\ Conn(k) = c)
    <3>1. CASE hash = client'[k].hash /\ hash # 0
      BY <1>2, <3>1 DEF Owns
    <3>2. CASE Promised(k, hash)'
      <4>1. Active(k)
        BY <1>7, <3>2 DEF Promised
      <4>2. PICK a \in Packets(answers'[Conn(k)]) : a.type = "LoginResponse" /\ a.ok /\ a.hash = hash
        BY <1>7, <3>2 DEF Promised
      <4>3. CASE a \in Packets(answers[Conn(k)])
        BY <4>1, <4>2, <4>3 DEF Owns, Promised
      <4>4. CASE a \notin Packets(answers[Conn(k)])
        <5>1. Conn(k) = c
          BY <1>2, <1>7, <4>1, <4>2, <4>4
        <5> QED
          BY <1>8, <4>1, <4>2, <4>4, <5>1
      <4> QED
        BY <4>3, <4>4
    <3> QED
      BY <2>1, <3>1, <3>2 DEF Owns
  <2>2. \A k \in Clients : ~ Owns(k, issued + 1)
    <3>1. issued + 1 \notin Hashes
      BY DEF Hashes, TypeOK
    <3> QED
      BY <3>1, OwnedIsIssued DEF WishInv
  <2>3. \A j, k \in Clients : Conn(j) = Conn(k) => j = k
    BY DEF Conn
  <2>4. \A j, k \in Clients : \A hash :
            /\ Owns(k, hash)' => Owns(k, hash) \/ hash = issued + 1
            /\ hash = issued + 1 /\ Owns(j, hash)' /\ Owns(k, hash)' => j = k
    BY <2>1, <2>2, <2>3
  <2> QED
    BY <2>4, ApartKept
<1> QED
  BY <1>9, <1>10, <1>11 DEF WishInv

\* Nobody hears of a hash he did not know.
LEMMA ApartStays ==
    ASSUME TypeOK, WishInv,
           \A k \in Clients : \A hash : Owns(k, hash)' => Owns(k, hash)
    PROVE  Apart'
<1>1. issued + 1 \notin Hashes
  BY DEF Hashes, TypeOK
<1>2. \A k \in Clients : ~ Owns(k, issued + 1)
  BY <1>1, OwnedIsIssued DEF WishInv
<1> QED
  BY <1>2, ApartKept

\* A step that puts no packet on any wire, and asks no zone for anything.
LEMMA QuietWish ==
    ASSUME TypeOK, WishInv, [Next]_vars, client' = client,
           \A c \in Connections : /\ requests'[c] \in {requests[c], <<>>}
                                  /\ answers'[c] \in {answers[c], <<>>},
           \A id \in CharacterIds : pendingHandoffs'[id] \in {None, pendingHandoffs[id]}
    PROVE  WishInv'
<1>1. \A k \in Clients : /\ Conn(k)' = Conn(k) /\ Active(k)' = Active(k)
                         /\ Active(k) => Conn(k) \in Connections
  BY NamedTyped DEF Conn, Active
<1>2. \A c \in Connections : /\ Packets(requests'[c]) \subseteq Packets(requests[c])
                             /\ Packets(answers'[c]) \subseteq Packets(answers[c])
  BY NoPackets
<1>3. \A k \in Clients : Fits(k)'
  <2> SUFFICES ASSUME NEW k \in Clients PROVE Fits(k)'
    OBVIOUS
  <2>1. Fits(k) /\ client'[k] = client[k]
    BY DEF WishInv
  <2>2. Active(k) =>
            /\ \A r \in Packets(requests'[Conn(k)]) : r \in Packets(requests[Conn(k)])
            /\ \A a \in Packets(answers'[Conn(k)]) : a \in Packets(answers[Conn(k)])
    BY <1>1, <1>2
  <2> QED
    BY <2>1, <2>2, SameClientFits
<1>4. UnusedAhead'
  <2>1. ASSUME NEW c \in Connections, Unused(c) PROVE Unused(c)'
    BY <2>1 DEF Unused
  <2> QED
    BY <2>1 DEF WishInv, UnusedAhead
<1>5. \A k \in Clients : \A hash : Owns(k, hash)' => Owns(k, hash)
  BY <1>1, <1>2 DEF Owns, Promised
<1> QED
  BY <1>3, <1>4, <1>5, ApartStays DEF WishInv

LEMMA ReadyWish ==
    ASSUME TypeOK, WishInv, PlayerEnterReady
    PROVE  WishInv'
<1>0. [Next]_vars
  BY DEF Next
<1>1. UNCHANGED <<requests, client>>
  BY ReadyEffect
<1>2. CASE UNCHANGED <<pendingHandoffs, answers>>
  BY <1>0, <1>1, <1>2, QuietWish
<1>3. ASSUME NEW id \in CharacterIds, NEW c \in Connections, NEW a \in Response,
             pendingHandoffs[id] # None, c = pendingHandoffs[id].connection,
             pendingHandoffs' = [pendingHandoffs EXCEPT ![id] = None],
             \A d \in Connections \ {c} : answers'[d] = answers[d],
             a.type = "ZoneConnectInfo",
             a.ok => /\ a.character = id /\ a.token = pendingHandoffs[id].hash
                     /\ characters[id] # None,
             answers'[c] = IF Open(c) THEN Append(answers[c], a) ELSE answers[c]
      PROVE  WishInv'
  <2>1. \A k \in Clients : /\ Conn(k)' = Conn(k) /\ Active(k)' = Active(k) /\ Named(k)' = Named(k)
                           /\ Active(k) => Conn(k) \in Connections
    BY <1>1, NamedTyped DEF Conn, Active, Named
  <2>2. \A x \in CharacterIds : pendingHandoffs'[x] \in {None, pendingHandoffs[x]}
    BY <1>3 DEF TypeOK
  <2>3. Packets(answers'[c]) \subseteq Packets(answers[c]) \cup {a}
    <3>1. PICK queue : queue = answers[c]
      OBVIOUS
    <3>2. queue \in Seq(Response)
      BY <3>1 DEF TypeOK
    <3>3. Packets(Append(queue, a)) = Packets(queue) \cup {a}
      BY <3>2, PacketsSent
    <3> QED
      BY <1>3, <3>1, <3>3
  <2>4. ASSUME NEW k \in Clients PROVE Fits(k)'
    <3>1. Fits(k) /\ client'[k] = client[k]
      BY <1>1 DEF WishInv
    <3>2. ASSUME Active(k), Conn(k) = c PROVE ResponseFits(k, a)'
      <4>1. /\ id = Named(k) /\ pendingHandoffs[id].hash = client[k].hash
            /\ client[k].hash # 0
        BY <1>3, <3>1, <3>2 DEF Fits, HandoffFits
      <4>2. characters[id] # None => characters'[id] # None
        BY <1>0, TablesGrow
      <4> QED
        BY <1>3, <2>1, <3>1, <4>1, <4>2 DEF ResponseFits
    <3>3. Active(k) =>
              /\ \A r \in Packets(requests'[Conn(k)]) : r \in Packets(requests[Conn(k)])
              /\ \A b \in Packets(answers'[Conn(k)]) :
                     b \in Packets(answers[Conn(k)]) \/ ResponseFits(k, b)'
      BY <1>1, <1>3, <2>1, <2>3, <3>2
    <3> QED
      BY <1>0, <2>2, <3>1, <3>3, SameClientFits
  <2>5. UnusedAhead'
    <3>1. ASSUME NEW d \in Connections, d[2] > client[d[1]].attempt PROVE Unused(d)'
      <4>1. Unused(d)
        BY <3>1 DEF WishInv, UnusedAhead
      <4>2. d # c
        BY <1>3, <4>1 DEF Unused
      <4> QED
        BY <1>1, <1>3, <2>2, <4>1, <4>2 DEF Unused
    <3> QED
      BY <1>1, <3>1 DEF UnusedAhead
  <2>6. ASSUME NEW k \in Clients, NEW hash, Owns(k, hash)' PROVE Owns(k, hash)
    <3>1. CASE hash = client'[k].hash /\ hash # 0
      BY <1>1, <3>1 DEF Owns
    <3>2. CASE Promised(k, hash)'
      <4>1. PICK b \in Packets(answers'[Conn(k)]) : b.type = "LoginResponse" /\ b.ok /\ b.hash = hash
        BY <2>1, <3>2 DEF Promised
      <4>2. b \in Packets(answers[Conn(k)]) /\ Active(k)
        BY <1>3, <2>1, <2>3, <3>2, <4>1 DEF Promised
      <4> QED
        BY <4>1, <4>2 DEF Owns, Promised
    <3> QED
      BY <2>6, <3>1, <3>2 DEF Owns
  <2> QED
    BY <2>4, <2>5, <2>6, ApartStays DEF WishInv
<1>4. ASSUME NEW id \in CharacterIds, pendingHandoffs[id] # None,
             pendingHandoffs[id].connection \in Connections,
             pendingHandoffs' = [pendingHandoffs EXCEPT ![id] = None],
             \A d \in Connections \ {pendingHandoffs[id].connection} : answers'[d] = answers[d],
             \E a \in Response :
                 /\ a.type = "ZoneConnectInfo"
                 /\ a.ok => /\ a.character = id /\ a.token = pendingHandoffs[id].hash
                            /\ characters[id] # None
                 /\ answers'[pendingHandoffs[id].connection] =
                        IF Open(pendingHandoffs[id].connection)
                        THEN Append(answers[pendingHandoffs[id].connection], a)
                        ELSE answers[pendingHandoffs[id].connection]
      PROVE  WishInv'
  <2>1. PICK c : c = pendingHandoffs[id].connection
    OBVIOUS
  <2>2. PICK a \in Response :
            /\ a.type = "ZoneConnectInfo"
            /\ a.ok => /\ a.character = id /\ a.token = pendingHandoffs[id].hash
                       /\ characters[id] # None
            /\ answers'[c] = IF Open(c) THEN Append(answers[c], a) ELSE answers[c]
    BY <1>4, <2>1
  <2> QED
    BY <1>3, <1>4, <2>1, <2>2
<1> QED
  BY <1>2, <1>4, ReadyEffect

LEMMA EnterWish ==
    ASSUME TypeOK, WishInv, NEW k \in Clients, NEW wish \in Wishes[k], EnterWorld(k, wish)
    PROVE  WishInv'
<1>0. [Next]_vars
  BY DEF Next
<1>1. PICK new : new = [step |-> "login", attempt |-> client[k].attempt + 1, wish |-> wish,
                        hash |-> 0, character |-> None, refused |-> "idle", troubled |-> FALSE]
  OBVIOUS
<1>2. PICK c : c = <<k, client[k].attempt + 1>>
  OBVIOUS
<1>3. /\ client' = [client EXCEPT ![k] = new]
      /\ requests' = [requests EXCEPT ![c] = <<LoginRequest(wish)>>]
      /\ UNCHANGED <<pendingHandoffs, answers>>
      /\ client[k].attempt < MaxAttempts[k]
  BY <1>1, <1>2 DEF EnterWorld
<1>4. /\ new.step = "login" /\ new.attempt = client[k].attempt + 1 /\ new.wish = wish
      /\ new.hash = 0
  BY <1>1
<1>5. client[k].attempt \in Nat /\ MaxAttempts[k] \in Nat
  BY LimitsAssumption DEF TypeOK, Run
<1>6. c \in Connections
  BY <1>2, <1>3, <1>5 DEF Connections
<1>7. /\ client'[k] = new /\ \A j \in Clients \ {k} : client'[j] = client[j]
      /\ requests'[c] = <<LoginRequest(wish)>>
      /\ \A d \in Connections \ {c} : requests'[d] = requests[d]
  BY <1>3, <1>6 DEF TypeOK
<1>8. Unused(c)
  <2>1. c[1] = k /\ c[2] > client[c[1]].attempt
    BY <1>2, <1>5
  <2> QED
    BY <1>6, <2>1 DEF WishInv, UnusedAhead
<1>9. Conn(k)' = c /\ Active(k)'
  BY <1>2, <1>4, <1>5, <1>7 DEF Conn, Active
<1>10. Fits(k)'
  <2>1. Packets(answers'[c]) = {}
    BY <1>3, <1>8, NoPackets DEF Unused
  <2>2. \A id \in CharacterIds : HandoffFits(k, id)'
    BY <1>3, <1>8, <1>9 DEF HandoffFits, Unused
  <2>3. ClientFits(k)'
    BY <1>4, <1>7 DEF ClientFits
  <2>4. \A r \in Packets(requests'[c]) : RequestFits(k, r)'
    <3>1. PICK r : r = LoginRequest(wish)
      OBVIOUS
    <3>2. Packets(requests'[c]) = {r}
      BY <1>7, <3>1, OnePacket
    <3>3. r.type = "LoginRequest" /\ r.user = wish.user /\ r.password = wish.password
      BY <3>1 DEF LoginRequest
    <3>4. RequestFits(k, r)'
      BY <1>4, <1>7, <3>3 DEF RequestFits
    <3> QED
      BY <3>2, <3>4
  <2> QED
    BY <1>9, <2>1, <2>2, <2>3, <2>4 DEF Fits
<1>11. ASSUME NEW j \in Clients \ {k} PROVE Fits(j)'
  <2>1. Fits(j) /\ client'[j] = client[j] /\ Conn(j) # c
    BY <1>2, <1>7 DEF WishInv, Conn
  <2>2. Active(j) => requests'[Conn(j)] = requests[Conn(j)]
    BY <1>7, <2>1, NamedTyped
  <2> QED
    BY <1>0, <1>3, <2>1, <2>2, SameClientFits
<1>12. UnusedAhead'
  <2>1. ASSUME NEW d \in Connections, d[2] > client'[d[1]].attempt PROVE Unused(d)'
    <3>1. d[1] \in Clients /\ d[2] \in Int
      BY DEF Connections
    <3>2. d # c
      BY <1>2, <1>4, <1>5, <1>7, <2>1
    <3>3. d[2] > client[d[1]].attempt
      BY <1>4, <1>5, <1>7, <2>1, <3>1
    <3>4. Unused(d)
      BY <3>3 DEF WishInv, UnusedAhead
    <3> QED
      BY <1>3, <1>7, <3>2, <3>4 DEF Unused
  <2> QED
    BY <2>1 DEF UnusedAhead
<1>13. ASSUME NEW j \in Clients, NEW hash, Owns(j, hash)' PROVE Owns(j, hash)
  <2>1. CASE j = k
    <3>1. Packets(answers'[c]) = {}
      BY <1>3, <1>8, NoPackets DEF Unused
    <3> QED
      BY <1>4, <1>7, <1>9, <1>13, <2>1, <3>1 DEF Owns, Promised
  <2>2. CASE j # k
    BY <1>3, <1>7, <1>13, <2>2 DEF Owns, Promised, Active, Conn
  <2> QED
    BY <2>1, <2>2
<1> QED
  BY <1>10, <1>11, <1>12, <1>13, ApartStays DEF WishInv

LEMMA SentPackets ==
    ASSUME TypeOK, NEW k \in Clients, Active(k), NEW step, NEW r \in Request, Sent(k, step, r)
    PROVE  /\ client'[k].step \in {step, "failed"}
           /\ Packets(requests'[Conn(k)]) \subseteq Packets(requests[Conn(k)]) \cup {r}
<1>1. PICK queue : queue = requests[Conn(k)]
  OBVIOUS
<1>2. queue \in Seq(Request)
  BY <1>1, NamedTyped
<1>3. Packets(Append(queue, r)) = Packets(queue) \cup {r}
  BY <1>2, PacketsSent
<1> QED
  BY <1>1, <1>3 DEF Sent

\* The script goes from a run that is about what its user typed to another one.
LEMMA OutcomeFits ==
    ASSUME TypeOK, [Next]_vars, NEW k \in Clients, client[k].step \in Waiting, Fits(k),
           SameRun(k), UNCHANGED <<tables, pendingHandoffs>>,
           NEW packet \in Response \cup {None},
           packet # None => packet \in Packets(answers[Conn(k)]),
           Outcome(k, packet),
           Packets(answers'[Conn(k)]) \subseteq Packets(answers[Conn(k)])
    PROVE  /\ Fits(k)'
           /\ client'[k].hash = client[k].hash \/ Promised(k, client'[k].hash)
<1> DEFINE old == client[k]
           new == client'[k]
           w   == client[k].wish
<1>1. /\ new.attempt = old.attempt /\ new.wish = w
      /\ Active(k) /\ ClientFits(k)
      /\ Conn(k)' = Conn(k) /\ Active(k)' /\ Named(k)' = Named(k)
  BY InIsActive DEF SameRun, Conn, Active, Named, Fits
<1>2. /\ w \in Wishes[k] /\ old.hash \in Nat /\ Named(k) \in CharacterIds
      /\ requests[Conn(k)] \in Seq(Request) /\ answers[Conn(k)] \in Seq(Response)
  BY <1>1, NamedTyped DEF TypeOK, Run
<1>3. /\ old.step \in {"login", "register", "relogin"} => old.hash = 0
      /\ old.step \in {"create", "list", "select"} => old.hash # 0
      /\ old.hash # 0 => OfItsUser(k, old.hash)
  BY <1>1 DEF ClientFits
<1>4. /\ \A hash : OfItsUser(k, hash) => OfItsUser(k, hash)'
      /\ characters' = characters
  BY <1>1 DEF tables, OfItsUser, Hashes
<1> DEFINE granted == Grants(packet, old.step)
<1>5. ASSUME granted, old.step # "register"
      PROVE  /\ packet \in Response /\ ResponseFits(k, packet) /\ packet.ok
             /\ packet \in Packets(answers[Conn(k)])
             /\ old.step \in {"login", "relogin"} => packet.type = "LoginResponse"
             /\ old.step = "create" => packet.type = "CreateCharacterResponse"
             /\ old.step = "list" => packet.type = "CharacterListResponse"
             /\ old.step = "select" => packet.type = "ZoneConnectInfo"
  <2>1. /\ packet \in Response /\ packet.ok
        /\ old.step \in {"login", "relogin"} => packet.type = "LoginResponse"
        /\ old.step = "create" => packet.type = "CreateCharacterResponse"
        /\ old.step = "list" => packet.type = "CharacterListResponse"
        /\ old.step = "select" => packet.type = "ZoneConnectInfo"
    BY <1>5, Granted
  <2>2. packet # None
    BY <2>1, Records
  <2> QED
    BY <1>1, <2>1, <2>2 DEF Fits
\* The same session, and a request that fits, or none.
<1>6. ASSUME new.hash = old.hash, ClientFits(k)',
             \A r \in Packets(requests'[Conn(k)]) :
                 r \in Packets(requests[Conn(k)]) \/ RequestFits(k, r)'
      PROVE  Fits(k)'
  <2>1. \A id \in CharacterIds : pendingHandoffs'[id] = pendingHandoffs[id]
    OBVIOUS
  <2> QED
    BY <1>1, <1>6, <2>1, FitsKept
<1>7. ASSUME NEW step \in Waiting, NEW r \in Request, Sent(k, step, r), new.hash = old.hash,
             RequestFits(k, r)', step \in {"register", "relogin"} => old.hash = 0,
             step \in {"list", "select"} => old.hash # 0,
             step \notin {"login", "create"}
      PROVE  Fits(k)'
  <2>1. /\ new.step \in {step, "failed"}
        /\ Packets(requests'[Conn(k)]) \subseteq Packets(requests[Conn(k)]) \cup {r}
    BY <1>1, <1>7, SentPackets
  <2>2. ClientFits(k)'
    BY <1>3, <1>4, <1>7, <2>1 DEF ClientFits, Waiting
  <2> QED
    BY <1>6, <1>7, <2>1, <2>2
<1>8. CASE /\ old.step \in {"login", "relogin"} /\ granted
           /\ new.hash = packet.hash
           /\ Sent(k, "create",
                   [type |-> "CreateCharacterRequest", name |-> w.name,
                    race |-> w.race, class |-> w.class, hash |-> packet.hash])
  <2>1. /\ ResponseFits(k, packet) /\ packet.ok /\ packet.type = "LoginResponse"
        /\ packet \in Packets(answers[Conn(k)])
    BY <1>5, <1>8
  <2>2. OfItsUser(k, packet.hash) /\ packet.hash \in Nat /\ packet.hash # 0
    BY <2>1 DEF ResponseFits, OfItsUser, Hashes
  <2>3. old.hash = 0
    BY <1>3, <1>8
  <2>4. PICK r : r = [type |-> "CreateCharacterRequest", name |-> w.name,
                      race |-> w.race, class |-> w.class, hash |-> packet.hash]
    OBVIOUS
  <2>5. r \in Request
    BY <1>2, <2>2, <2>4, WishRequests
  <2>6. /\ new.step \in {"create", "failed"}
        /\ Packets(requests'[Conn(k)]) \subseteq Packets(requests[Conn(k)]) \cup {r}
    BY <1>1, <1>8, <2>4, <2>5, SentPackets
  <2>7. ClientFits(k)'
    BY <1>4, <1>8, <2>2, <2>6 DEF ClientFits
  <2>8. ASSUME NEW q \in Packets(requests'[Conn(k)]) PROVE RequestFits(k, q)'
    <3>1. CASE q = r
      BY <1>1, <1>8, <2>2, <2>4, <3>1 DEF RequestFits
    <3>2. CASE q \in Packets(requests[Conn(k)])
      <4>1. RequestFits(k, q)
        BY <1>1, <3>2 DEF Fits
      <4> QED
        BY <1>1, <2>3, <4>1 DEF RequestFits
    <3> QED
      BY <2>6, <2>8, <3>1, <3>2
  <2>9. ASSUME NEW a \in Packets(answers'[Conn(k)]) PROVE ResponseFits(k, a)'
    <3>1. ResponseFits(k, a)
      BY <1>1, <2>9 DEF Fits
    <3> QED
      BY <1>1, <1>4, <2>3, <3>1 DEF ResponseFits
  <2>10. ASSUME NEW id \in CharacterIds PROVE HandoffFits(k, id)'
    <3>1. HandoffFits(k, id)
      BY <1>1 DEF Fits
    <3> QED
      BY <1>1, <2>3, <3>1 DEF HandoffFits
  <2>11. Fits(k)'
    BY <1>1, <2>7, <2>8, <2>9, <2>10 DEF Fits
  <2>12. Promised(k, new.hash)
    BY <1>1, <1>8, <2>1 DEF Promised
  <2> QED
    BY <2>11, <2>12
<1>9. CASE /\ old.step = "login" /\ ~ granted /\ new.hash = old.hash
           /\ Sent(k, "register",
                   [type |-> "CreateAccountRequest", user |-> w.user, password |-> w.password])
  <2>1. PICK r : r = [type |-> "CreateAccountRequest", user |-> w.user, password |-> w.password]
    OBVIOUS
  <2>2. r \in Request
    BY <1>2, <2>1, WishRequests
  <2>3. RequestFits(k, r)'
    BY <1>1, <2>1 DEF RequestFits
  <2> QED
    BY <1>3, <1>7, <1>9, <2>1, <2>2, <2>3 DEF Waiting, Steps
<1>10. CASE /\ old.step = "register" /\ new.hash = old.hash
            /\ Sent(k, "relogin", LoginRequest(w))
  <2>1. PICK r : r = LoginRequest(w)
    OBVIOUS
  <2>2. r \in Request
    BY <1>2, <2>1, WishRequests
  <2>3. RequestFits(k, r)'
    BY <1>1, <2>1 DEF RequestFits, LoginRequest
  <2> QED
    BY <1>3, <1>7, <1>10, <2>1, <2>2, <2>3 DEF Waiting, Steps
<1>11. CASE /\ old.step = "create" /\ ~ granted /\ new.hash = old.hash
            /\ Sent(k, "list", [type |-> "CharacterListRequest", hash |-> old.hash])
  <2>1. PICK r : r = [type |-> "CharacterListRequest", hash |-> old.hash]
    OBVIOUS
  <2>2. r \in Request
    BY <1>2, <2>1, WishRequests
  <2>3. RequestFits(k, r)'
    BY <1>3, <1>11, <2>1 DEF RequestFits
  <2> QED
    BY <1>3, <1>7, <1>11, <2>1, <2>2, <2>3 DEF Waiting, Steps
<1>12. ASSUME new.hash = old.hash, NEW id \in CharacterIds,
              \/ old.step = "create" /\ granted /\ id = packet.character
              \/ old.step = "list" /\ granted /\ id \in Listed(packet, w.name),
              Sent(k, "select", [type |-> "SelectCharacterRequest", character |-> id,
                                 hash |-> old.hash])
       PROVE  Fits(k)'
  <2>1. id = Named(k)
    <3>1. CASE old.step = "create" /\ granted /\ id = packet.character
      BY <1>5, <3>1 DEF ResponseFits
    <3>2. CASE old.step = "list" /\ granted /\ id \in Listed(packet, w.name)
      <4>1. id[1] = w.user /\ id[2] = w.name
        BY <1>5, <3>2 DEF ResponseFits, Listed
      <4> QED
        BY <4>1 DEF Named, CharacterIds
    <3> QED
      BY <1>12, <3>1, <3>2
  <2>2. PICK r : r = [type |-> "SelectCharacterRequest", character |-> id, hash |-> old.hash]
    OBVIOUS
  <2>3. r \in Request
    BY <1>2, <2>2, WishRequests
  <2>4. RequestFits(k, r)'
    BY <1>1, <1>3, <1>12, <2>1, <2>2 DEF RequestFits
  <2> QED
    BY <1>3, <1>7, <1>12, <2>2, <2>3, <2>4 DEF Waiting, Steps
<1>13. CASE /\ old.step = "select" /\ granted
            /\ new.step = "in" /\ new.hash = packet.token /\ new.character = packet.character
            /\ requests'[Conn(k)] = requests[Conn(k)]
  <2>1. /\ packet.character = Named(k) /\ characters[Named(k)] # None
        /\ packet.token = old.hash /\ old.hash # 0
    BY <1>5, <1>13 DEF ResponseFits
  <2>2. ClientFits(k)'
    BY <1>1, <1>3, <1>4, <1>13, <2>1 DEF ClientFits
  <2> QED
    BY <1>6, <1>13, <2>1, <2>2
<1>14. CASE /\ new.step = "failed" /\ new.hash = old.hash
            /\ requests'[Conn(k)] = requests[Conn(k)]
  <2>1. ClientFits(k)'
    BY <1>1, <1>3, <1>4, <1>14 DEF ClientFits
  <2> QED
    BY <1>6, <1>14, <2>1
<1> HIDE DEF granted
<1>15. \/ /\ new.hash = old.hash
          /\ \E id \in CharacterIds :
                 /\ \/ old.step = "create" /\ granted /\ id = packet.character
                    \/ old.step = "list" /\ granted /\ id \in Listed(packet, w.name)
                 /\ Sent(k, "select", [type |-> "SelectCharacterRequest", character |-> id,
                                       hash |-> old.hash])
       \/ Fits(k)' /\ (new.hash = old.hash \/ Promised(k, new.hash))
  BY <1>8, <1>9, <1>10, <1>11, <1>13, <1>14 DEF Outcome, granted
<1> QED
  BY <1>12, <1>15

LEMMA ScriptWish ==
    ASSUME TypeOK, WishInv, NEW k \in Clients, Read(k) \/ Silence(k) \/ HalfAnAnswer(k)
    PROVE  WishInv'
<1>0. [Next]_vars
  BY DEF Next
<1>1. /\ client[k].step \in Waiting /\ SameRun(k)
      /\ UNCHANGED <<tables, pendingHandoffs>>
      /\ \A d \in Connections \ {Conn(k)} : answers'[d] = answers[d]
      /\ \/ /\ answers[Conn(k)] # <<>>
            /\ Outcome(k, Head(answers[Conn(k)]))
            /\ answers'[Conn(k)] \in {Tail(answers[Conn(k)]), <<>>}
         \/ /\ Outcome(k, None)
            /\ answers'[Conn(k)] \in {answers[Conn(k)], <<>>}
  BY ScriptOutcome
<1>2. /\ \A j \in Clients \ {k} : client'[j] = client[j]
      /\ \A d \in Connections \ {Conn(k)} : requests'[d] = requests[d]
      /\ client'[k].attempt = client[k].attempt
  BY <1>1 DEF SameRun
<1>3. Active(k) /\ Conn(k) \in Connections /\ answers[Conn(k)] \in Seq(Response)
  BY <1>1, InIsActive, NamedTyped
<1>4. Packets(answers'[Conn(k)]) \subseteq Packets(answers[Conn(k)])
  BY <1>1, <1>3, PacketsTaken, NoPackets
<1>5. /\ Fits(k)'
      /\ client'[k].hash = client[k].hash \/ Promised(k, client'[k].hash)
  <2>1. Fits(k)
    BY DEF WishInv
  <2>2. CASE answers[Conn(k)] # <<>> /\ Outcome(k, Head(answers[Conn(k)]))
    <3>1. PICK packet : packet = Head(answers[Conn(k)])
      OBVIOUS
    <3>2. packet \in Response /\ packet \in Packets(answers[Conn(k)])
      BY <1>3, <2>2, <3>1, HeadTyped, PacketsTaken
    <3> QED
      BY <1>0, <1>1, <1>4, <2>1, <2>2, <3>1, <3>2, OutcomeFits
  <2>3. CASE Outcome(k, None)
    BY <1>0, <1>1, <1>4, <2>1, <2>3, OutcomeFits
  <2> QED
    BY <1>1, <2>2, <2>3
<1>6. ASSUME NEW j \in Clients \ {k} PROVE Fits(j)'
  <2>1. Fits(j) /\ client'[j] = client[j] /\ Conn(j) # Conn(k)
    BY <1>2 DEF WishInv, Conn
  <2>2. Active(j) => requests'[Conn(j)] = requests[Conn(j)] /\ answers'[Conn(j)] = answers[Conn(j)]
    BY <1>1, <1>2, <2>1, NamedTyped
  <2>3. \A id \in CharacterIds : pendingHandoffs'[id] = pendingHandoffs[id]
    BY <1>1
  <2> QED
    BY <1>0, <2>1, <2>2, <2>3, SameClientFits
<1>7. UnusedAhead'
  <2>1. ASSUME NEW d \in Connections, d[2] > client'[d[1]].attempt PROVE Unused(d)'
    <3>1. d[1] \in Clients
      BY DEF Connections
    <3>2. d[2] > client[d[1]].attempt
      BY <1>2, <2>1, <3>1
    <3>3. client[k].attempt \in Nat
      BY DEF TypeOK, Run
    <3>4. d # Conn(k)
      BY <3>2, <3>3 DEF Conn
    <3>5. Unused(d)
      BY <3>2 DEF WishInv, UnusedAhead
    <3> QED
      BY <1>1, <1>2, <3>4, <3>5 DEF Unused
  <2> QED
    BY <2>1 DEF UnusedAhead
<1>8. ASSUME NEW j \in Clients, NEW hash, Owns(j, hash)' PROVE Owns(j, hash)
  <2>1. CASE j = k
    <3>1. Promised(k, hash)' => Promised(k, hash)
      BY <1>2, <1>3, <1>4 DEF Promised, Conn
    <3> QED
      BY <1>5, <1>8, <2>1, <3>1 DEF Owns
  <2>2. CASE j # k
    <3>1. client'[j] = client[j] /\ Conn(j)' = Conn(j) /\ Conn(j) # Conn(k) /\ Active(j)' = Active(j)
      BY <1>2, <2>2 DEF Conn, Active
    <3>2. Active(j) => answers'[Conn(j)] = answers[Conn(j)]
      BY <1>1, <3>1, NamedTyped
    <3> QED
      BY <1>8, <3>1, <3>2 DEF Owns, Promised
  <2> QED
    BY <2>1, <2>2
<1> QED
  BY <1>5, <1>6, <1>7, <1>8, ApartStays DEF WishInv

LEMMA QuitWish ==
    ASSUME TypeOK, WishInv, NEW k \in Clients, Quit(k)
    PROVE  WishInv'
<1>0. [Next]_vars
  BY DEF Next
<1>1. PICK new : new = [client[k] EXCEPT !.step = "idle"]
  OBVIOUS
<1>2. /\ client' = [client EXCEPT ![k] = new] /\ client[k].step = "in"
      /\ UNCHANGED <<requests, answers, pendingHandoffs>>
  BY <1>1 DEF Quit, wire, TypeOK
<1>3. /\ new.step = "idle" /\ new.attempt = client[k].attempt /\ new.wish = client[k].wish
      /\ new.hash = client[k].hash
  BY <1>1 DEF TypeOK, Run
<1>4. client'[k] = new /\ \A j \in Clients \ {k} : client'[j] = client[j]
  BY <1>2 DEF TypeOK
<1>5. \A j \in Clients : /\ client'[j].attempt = client[j].attempt
                         /\ client'[j].hash = client[j].hash
                         /\ Conn(j)' = Conn(j) /\ Active(j)' = Active(j)
  BY <1>3, <1>4 DEF Conn, Active
<1>6. Fits(k)'
  <2>1. Fits(k) /\ Active(k) /\ ClientFits(k)
    BY <1>2, InIsActive DEF WishInv, Fits
  <2>2. client[k].hash # 0 => OfItsUser(k, client[k].hash)'
    BY <1>0, <1>3, <1>4, <2>1, OfItsUserKept DEF ClientFits
  <2>3. ClientFits(k)'
    BY <1>3, <1>4, <2>2 DEF ClientFits
  <2> QED
    BY <1>0, <1>2, <1>3, <1>4, <2>1, <2>3, FitsKept
<1>7. ASSUME NEW j \in Clients \ {k} PROVE Fits(j)'
  <2>1. Fits(j) /\ client'[j] = client[j]
    BY <1>4 DEF WishInv
  <2> QED
    BY <1>0, <1>2, <2>1, SameClientFits
<1>8. UnusedAhead'
  <2>1. \A d \in Connections : d[1] \in Clients
    BY DEF Connections
  <2>2. ASSUME NEW d \in Connections, Unused(d) PROVE Unused(d)'
    BY <1>2, <2>2 DEF Unused
  <2> QED
    BY <1>5, <2>1, <2>2 DEF WishInv, UnusedAhead
<1>9. \A j \in Clients : \A hash : Owns(j, hash)' => Owns(j, hash)
  BY <1>2, <1>5 DEF Owns, Promised
<1> QED
  BY <1>6, <1>7, <1>8, <1>9, ApartStays DEF WishInv

LEMMA WishInitially == Init => WishInv
<1> SUFFICES ASSUME Init PROVE WishInv
  OBVIOUS
<1>1. \A k \in Clients : client[k].attempt = 0 /\ client[k].hash = 0 /\ client[k].step = "idle"
  BY DEF Init, Nobody
<1>2. UnusedAhead
  BY DEF Init, UnusedAhead, Unused
<1>3. \A k \in Clients : Fits(k)
  BY <1>1 DEF Fits, ClientFits, Active
<1>4. Apart
  BY <1>1 DEF Apart, Owns, Promised, Active
<1> QED
  BY <1>2, <1>3, <1>4 DEF WishInv

LEMMA WishStep == TypeOK /\ WishInv /\ [Next]_vars => WishInv'
<1> SUFFICES ASSUME TypeOK, WishInv, [Next]_vars PROVE WishInv'
  OBVIOUS
<1>1. ASSUME NEW c \in Connections, Handle(c) PROVE WishInv'
  BY <1>1, HandleWish
<1>2. CASE PlayerEnterReady
  BY <1>2, ReadyWish
<1>3. CASE Restart
  <2>1. client' = client
    BY <1>3 DEF Restart
  <2>2. /\ \A c \in Connections : requests'[c] = <<>> /\ answers'[c] = <<>>
        /\ \A id \in CharacterIds : pendingHandoffs'[id] = None
    BY <1>3 DEF Restart
  <2> QED
    BY <2>1, <2>2, QuietWish
<1>4. ASSUME NEW k \in Clients, NEW wish \in Wishes[k], EnterWorld(k, wish) PROVE WishInv'
  BY <1>4, EnterWish
<1>5. ASSUME NEW k \in Clients, Read(k) \/ Silence(k) \/ HalfAnAnswer(k) PROVE WishInv'
  BY <1>5, ScriptWish
<1>6. ASSUME NEW k \in Clients, Quit(k) PROVE WishInv'
  BY <1>6, QuitWish
<1>7. ASSUME NEW id \in CharacterIds, NEW zone \in Zones, ZoneSaves(id, zone) PROVE WishInv'
  <2>1. UNCHANGED <<requests, answers, client, pendingHandoffs>>
    BY <1>7 DEF ZoneSaves, wire
  <2> QED
    BY <2>1, QuietWish
<1>8. CASE Tick \/ UNCHANGED vars
  <2>1. UNCHANGED <<requests, answers, client, pendingHandoffs>>
    BY <1>8 DEF Tick, vars, wire
  <2> QED
    BY <2>1, QuietWish
<1> QED
  BY <1>1, <1>2, <1>3, <1>4, <1>5, <1>6, <1>7, <1>8 DEF Next

\* Whatever is late, lost or repeated, every packet of a run, every handoff that
\* WorldLogin remembers for it and every hash it holds is about what its user typed
\* (handleClientPacket answers the session of the request, performLoginAndHandoff sends
\* the session it was given), and no hash belongs to two runs.
THEOREM WishInvariant == Spec => []WishInv
  BY TypeCorrect, WishInitially, WishStep, PTL DEF Spec

\* A client that is let into a zone plays the character its user named, in the account
\* its user named, and holds a session of its own login: handleClientPacket looks for the
\* selected character among those of the session's account, PlayerEnterReady hands out the
\* hash the client selected it with, and every login is given a hash of its own.
THEOREM EntersWhatWasTyped == Spec => []EntersAsTyped
<1>1. TypeOK /\ WishInv => EntersAsTyped
  <2> SUFFICES ASSUME TypeOK, WishInv, NEW k \in Clients, client[k].step = "in"
               PROVE  /\ client[k].character = Named(k)
                      /\ characters[client[k].character] # None
                      /\ \A j \in Clients \ {k} :
                             client[j].step = "in" => client[j].hash # client[k].hash
    BY DEF EntersAsTyped, Named
  <2>1. \A j \in Clients : client[j].step = "in" => client[j].hash # 0 /\ Owns(j, client[j].hash)
    BY DEF WishInv, Fits, ClientFits, Owns
  <2>2. client[k].hash \in Hashes
    BY <2>1, OwnedIsIssued DEF WishInv
  <2>3. ASSUME NEW j \in Clients \ {k}, client[j].step = "in" PROVE client[j].hash # client[k].hash
    BY <2>1, <2>2, <2>3 DEF WishInv, Apart
  <2> QED
    BY <2>3 DEF WishInv, Fits, ClientFits
<1> QED
  BY <1>1, TypeCorrect, WishInvariant, PTL

-----------------------------------------------------------------------------
(* Nobody is turned away but for a reason *)

\* There is an account of the name typed, or there may never be one with that password.
Registered(k) ==
    \/ accounts[client[k].wish.user] # None
    \/ ~ (WellFormed(client[k].wish.user) /\ WellFormed(client[k].wish.password))

\* The reasons to turn a login down, and those to turn a character down.
LoginRefused(k) ==
    LET account == accounts[client[k].wish.user]
    IN  \/ account = None /\ ~ (WellFormed(client[k].wish.user) /\ WellFormed(client[k].wish.password))
        \/ account # None /\ (account.banned \/ account.password # client[k].wish.password)

CharacterRefused(k) ==
    \/ ~ Live(client[k].hash)
    \/ ~ HasRoom(client[k].wish.user)
    \/ ~ MayBeCreated(client[k].wish)

\* What a step of the script sends, and what answers it.
RequestOf(step) ==
    CASE step \in {"login", "relogin"} -> "LoginRequest"
      [] step = "register" -> "CreateAccountRequest"
      [] step = "create" -> "CreateCharacterRequest"
      [] step = "list" -> "CharacterListRequest"
      [] step = "select" -> "SelectCharacterRequest"

ResponseOf(step) ==
    CASE step \in {"login", "relogin"} -> "LoginResponse"
      [] step = "register" -> "CreateAccountResponse"
      [] step = "create" -> "CreateCharacterResponse"
      [] step = "list" -> "CharacterListResponse"
      [] step = "select" -> "ZoneConnectInfo"

\* One thing is under way for a run: its request, the zone's preparation or the answer.
OneThing(k) ==
    /\ \/ requests[Conn(k)] = <<>>
       \/ \E r \in Request : /\ requests[Conn(k)] = <<r>> /\ r.type = RequestOf(client[k].step)
                             /\ answers[Conn(k)] = <<>>
    /\ \/ answers[Conn(k)] = <<>>
       \/ \E a \in Response : /\ answers[Conn(k)] = <<a>> /\ a.type = ResponseOf(client[k].step)
                              /\ requests[Conn(k)] = <<>>
    /\ \A id \in CharacterIds :
           pendingHandoffs[id] # None /\ pendingHandoffs[id].connection = Conn(k) =>
               client[k].step = "select" /\ requests[Conn(k)] = <<>> /\ answers[Conn(k)] = <<>>

\* What the answers so far say of the reasons.
Reasons(k) ==
    /\ client[k].step = "register" /\ answers[Conn(k)] # <<>> => Registered(k)
    /\ client[k].step = "relogin" => Registered(k)
    /\ client[k].step = "list" => CharacterRefused(k)
    /\ \A a \in Packets(answers[Conn(k)]) :
           ~ a.ok => /\ client[k].step = "relogin" => LoginRefused(k)
                     /\ client[k].step = "create" => CharacterRefused(k)

Turned(k) ==
    /\ client[k].step \in Waiting /\ ~ client[k].troubled => OneThing(k) /\ Reasons(k)
    /\ client[k].step = "failed" =>
           /\ Active(k)
           /\ ~ client[k].troubled =>
                  /\ client[k].refused = "relogin" => LoginRefused(k)
                  /\ client[k].refused = "list" => CharacterRefused(k)

TurnInv == \A k \in Clients : Turned(k)

LEMMA HasRoomKept ==
    ASSUME TypeOK, Counted, Counted', [Next]_vars, NEW user \in Users, ~ HasRoom(user)
    PROVE  ~ HasRoom(user)'
<1>1. CharactersOf(user) \subseteq CharactersOf(user)'
  BY TablesGrow DEF CharactersOf
<1>2. IsFiniteSet(CharactersOf(user)) /\ IsFiniteSet(CharactersOf(user)')
  BY DEF Counted
<1>3. Cardinality(CharactersOf(user)) <= Cardinality(CharactersOf(user)')
  BY <1>1, <1>2, FS_Subset
<1>4. /\ Cardinality(CharactersOf(user)) \in Nat /\ Cardinality(CharactersOf(user)') \in Nat
      /\ CharacterLimit \in Nat
  BY <1>2, FS_CardinalityType, LimitsAssumption
<1> QED
  BY <1>3, <1>4 DEF HasRoom

LEMMA OverKept ==
    ASSUME TypeOK, TypeOK', [Next]_vars, NEW hash \in Nat, hash \in Hashes \/ hash = 0, ~ Live(hash)
    PROVE  ~ Live(hash)'
<1>1. CASE hash \in Hashes
  <2>1. /\ sessions'[hash] \in {None, sessions[hash]} /\ clock' >= clock
        /\ clock \in Int /\ clock' \in Int
    BY <1>1, TablesGrow, LimitsAssumption DEF TypeOK
  <2>2. sessions[hash] # None => sessions[hash].expires \in Int /\ sessions[hash].expires <= clock
    BY <1>1, <2>1, LimitsAssumption DEF Live, TypeOK, Session
  <2> QED
    BY <2>1, <2>2 DEF Live
<1>2. CASE hash = 0
  BY <1>2 DEF Live, Hashes, TypeOK
<1> QED
  BY <1>1, <1>2

\* A reason stays one: accounts do not change, characters do not go, sessions end.
LEMMA ReasonsKept ==
    ASSUME TypeOK, TypeOK', Counted, Counted', [Next]_vars, NEW k \in Clients, Active(k), Fits(k),
           client'[k].wish = client[k].wish, client'[k].hash = client[k].hash
    PROVE  /\ Registered(k) => Registered(k)'
           /\ LoginRefused(k) => LoginRefused(k)'
           /\ CharacterRefused(k) => CharacterRefused(k)'
<1>1. client[k].wish.user \in Users
  BY NamedTyped
<1>2. PICK user : user = client[k].wish.user
  OBVIOUS
<1>3. /\ accounts[user] # None => accounts'[user] = accounts[user]
      /\ accounts[user] = None /\ accounts'[user] # None =>
             WellFormed(user) /\ WellFormed(accounts'[user].password)
  BY <1>1, <1>2, TablesGrow
<1>4. Registered(k) => Registered(k)'
  BY <1>2, <1>3 DEF Registered
<1>5. LoginRefused(k) => LoginRefused(k)'
  BY <1>2, <1>3 DEF LoginRefused
<1>6. client[k].hash \in Nat /\ (client[k].hash \in Hashes \/ client[k].hash = 0)
  BY DEF Fits, ClientFits, OfItsUser, TypeOK, Run
<1>7. ~ Live(client[k].hash) => ~ Live(client[k].hash)'
  BY <1>6, OverKept
<1>8. ~ HasRoom(user) => ~ HasRoom(user)'
  BY <1>1, <1>2, HasRoomKept
<1>9. CharacterRefused(k) => CharacterRefused(k)'
  <2>1. PICK hash : hash = client[k].hash
    OBVIOUS
  <2>2. client'[k].hash = hash /\ client'[k].wish.user = user
    BY <1>2, <2>1
  <2>3. ~ Live(hash) => ~ Live(hash)'
    BY <1>7, <2>1 DEF Live, Hashes
  <2>4. MayBeCreated(client[k].wish) => MayBeCreated(client'[k].wish)
    OBVIOUS
  <2> QED
    BY <1>2, <1>8, <2>1, <2>2, <2>3 DEF CharacterRefused, Live, HasRoom, CharactersOf, Hashes
<1> QED
  BY <1>4, <1>5, <1>9

LEMMA Paired ==
    ASSUME NEW step \in Waiting, NEW r, r.type = RequestOf(step)
    PROVE  /\ \A a : Reply(r, a) => a.type = ResponseOf(step)
           /\ r.type = "SelectCharacterRequest" => step = "select"
<1>1. /\ step \in {"login", "relogin"} => r.type = "LoginRequest"
      /\ step = "register" => r.type = "CreateAccountRequest"
      /\ step = "create" => r.type = "CreateCharacterRequest"
      /\ step = "list" => r.type = "CharacterListRequest"
      /\ step = "select" => r.type = "SelectCharacterRequest"
  BY DEF RequestOf
<1>2. /\ step \in {"login", "relogin"} => ResponseOf(step) = "LoginResponse"
      /\ step = "register" => ResponseOf(step) = "CreateAccountResponse"
      /\ step = "create" => ResponseOf(step) = "CreateCharacterResponse"
      /\ step = "list" => ResponseOf(step) = "CharacterListResponse"
      /\ step = "select" => ResponseOf(step) = "ZoneConnectInfo"
  BY DEF ResponseOf
<1>3. step \in {"login", "register", "relogin", "create", "list", "select"}
  BY DEF Waiting, Steps
<1> QED
  BY <1>1, <1>2, <1>3 DEF Reply

\* A run that does nothing itself, and for which nothing new is under way.
LEMMA SameTurned ==
    ASSUME TypeOK, TypeOK', Counted, Counted', [Next]_vars, NEW k \in Clients,
           Fits(k), Turned(k), client'[k] = client[k],
           Active(k) =>
               /\ requests'[Conn(k)] \in {requests[Conn(k)], <<>>}
               /\ answers'[Conn(k)] \in {answers[Conn(k)], <<>>}
               /\ \A id \in CharacterIds :
                      \/ pendingHandoffs'[id] \in {None, pendingHandoffs[id]}
                      \/ pendingHandoffs'[id].connection # Conn(k)
    PROVE  Turned(k)'
<1>1. Conn(k)' = Conn(k) /\ Active(k)' = Active(k)
  BY DEF Conn, Active
<1>2. ASSUME Active(k)
      PROVE  /\ Registered(k) => Registered(k)'
             /\ LoginRefused(k) => LoginRefused(k)'
             /\ CharacterRefused(k) => CharacterRefused(k)'
  BY <1>2, ReasonsKept
<1>3. ASSUME client[k].step \in Waiting, ~ client[k].troubled
      PROVE  OneThing(k)' /\ Reasons(k)'
  <2>1. OneThing(k) /\ Reasons(k) /\ Active(k)
    BY <1>3, InIsActive DEF Turned
  <2>2. OneThing(k)'
    BY <1>1, <2>1 DEF OneThing
  <2>3. Packets(answers'[Conn(k)]) \subseteq Packets(answers[Conn(k)])
    BY <2>1, NoPackets
  <2>4. Reasons(k)'
    BY <1>1, <1>2, <2>1, <2>3, NoPackets DEF Reasons
  <2> QED
    BY <2>2, <2>4
<1>4. ASSUME client[k].step = "failed"
      PROVE  /\ Active(k)'
             /\ ~ client'[k].troubled =>
                    /\ client'[k].refused = "relogin" => LoginRefused(k)'
                    /\ client'[k].refused = "list" => CharacterRefused(k)'
  BY <1>1, <1>2, <1>4 DEF Turned
<1> QED
  BY <1>3, <1>4 DEF Turned

\* A request that is refused at once is refused for a reason.
LEMMA ReplyReasons ==
    ASSUME TypeOK, TypeOK', Counted, Counted', [Next]_vars, NEW k \in Clients,
           Active(k), Fits(k), client' = client, client[k].step \in Waiting, Reasons(k),
           NEW r \in Request, RequestFits(k, r), r.type = RequestOf(client[k].step),
           NEW a \in Response, Reply(r, a), answers'[Conn(k)] \in {<<>>, <<a>>}
    PROVE  Reasons(k)'
<1>1. Conn(k)' = Conn(k)
  BY DEF Conn
<1>2. /\ Registered(k) => Registered(k)'
      /\ LoginRefused(k) => LoginRefused(k)'
      /\ CharacterRefused(k) => CharacterRefused(k)'
  BY ReasonsKept
<1>3. a.type = ResponseOf(client[k].step)
  BY Paired
<1>4. client[k].step = "register" => Registered(k)'
  <2>1. SUFFICES ASSUME client[k].step = "register" PROVE Registered(k)'
    OBVIOUS
  <2>2. r.type = "CreateAccountRequest"
    BY <2>1 DEF RequestOf
  <2>3. /\ r.user = client[k].wish.user /\ r.password = client[k].wish.password
        /\ accounts'[r.user] # None \/ ~ (WellFormed(r.user) /\ WellFormed(r.password))
    BY <2>2 DEF RequestFits, Reply
  <2> QED
    BY <2>3 DEF Registered
<1>5. client[k].step = "relogin" /\ ~ a.ok => LoginRefused(k)
  <2>1. SUFFICES ASSUME client[k].step = "relogin", ~ a.ok PROVE LoginRefused(k)
    OBVIOUS
  <2>2. r.type = "LoginRequest" /\ Registered(k)
    BY <2>1 DEF RequestOf, Reasons
  <2>3. /\ r.user = client[k].wish.user /\ r.password = client[k].wish.password
        /\ accounts[r.user] = None \/ accounts[r.user].banned \/ accounts[r.user].password # r.password
    BY <2>1, <2>2 DEF RequestFits, Reply
  <2> QED
    BY <2>2, <2>3 DEF Registered, LoginRefused
<1>6. client[k].step = "create" /\ ~ a.ok => CharacterRefused(k)
  <2>1. SUFFICES ASSUME client[k].step = "create", ~ a.ok PROVE CharacterRefused(k)
    OBVIOUS
  <2>2. r.type = "CreateCharacterRequest"
    BY <2>1 DEF RequestOf
  <2>3. /\ r.hash = client[k].hash /\ r.name = client[k].wish.name /\ client[k].hash # 0
        /\ r.race = client[k].wish.race /\ r.class = client[k].wish.class
    BY <2>2 DEF RequestFits
  <2>4. \/ ~ Live(r.hash)
        \/ ~ HasRoom(sessions[r.hash].account)
        \/ ~ MayBeCreated(r)
    BY <2>1, <2>2 DEF Reply
  <2>5. Live(r.hash) => sessions[r.hash].account = client[k].wish.user
    BY <2>3 DEF Fits, ClientFits, OfItsUser, Live
  <2>6. MayBeCreated(client[k].wish) => MayBeCreated(r)
    BY <2>3 DEF MayBeCreated
  <2> QED
    BY <2>3, <2>4, <2>5, <2>6 DEF CharacterRefused
<1>7. Packets(answers'[Conn(k)]) \subseteq {a}
  BY NoPackets, OnePacket
<1>8. \A b \in Packets(answers'[Conn(k)]) :
          ~ b.ok => /\ client[k].step = "relogin" => LoginRefused(k)'
                    /\ client[k].step = "create" => CharacterRefused(k)'
  BY <1>2, <1>5, <1>6, <1>7
<1>9. client[k].step = "relogin" => Registered(k)'
  BY <1>2 DEF Reasons
<1>10. client[k].step = "list" => CharacterRefused(k)'
  BY <1>2 DEF Reasons
<1> QED
  BY <1>1, <1>4, <1>8, <1>9, <1>10 DEF Reasons

LEMMA HandleTurn ==
    ASSUME TypeOK, TypeOK', Counted, Counted', WishInv, TurnInv, NEW c \in Connections, Handle(c)
    PROVE  TurnInv'
<1>0. [Next]_vars
  BY DEF Next
<1>1. PICK r : r = Head(requests[c])
  OBVIOUS
<1>2. /\ r \in Request
      /\ requests[c] # <<>> /\ requests' = [requests EXCEPT ![c] = Tail(@)]
      /\ client' = client
      /\ \A d \in Connections \ {c} : answers'[d] = answers[d]
      /\ Handled(c, r)
  BY <1>1, HandleEffect
<1>3. /\ requests \in [Connections -> Seq(Request)] /\ answers \in [Connections -> Seq(Response)]
      /\ pendingHandoffs \in [CharacterIds -> {None} \cup PendingHandoff]
  BY DEF TypeOK
<1>4. /\ \A d \in Connections \ {c} : requests'[d] = requests[d]
      /\ requests'[c] = Tail(requests[c]) /\ r \in Packets(requests[c])
  BY <1>1, <1>2, <1>3, PacketsTaken
<1>5. \A id \in CharacterIds :
          \/ pendingHandoffs'[id] = pendingHandoffs[id]
          \/ r.type = "SelectCharacterRequest" /\ pendingHandoffs'[id].connection = c
  BY <1>2, <1>3 DEF Handled
<1>6. SUFFICES ASSUME NEW k \in Clients PROVE Turned(k)'
  BY DEF TurnInv
<1>7. Fits(k) /\ Turned(k) /\ Conn(k)' = Conn(k) /\ Active(k)' = Active(k) /\ client'[k] = client[k]
  BY <1>2 DEF WishInv, TurnInv, Conn, Active
<1>8. CASE Conn(k) # c \/ ~ Active(k)
  <2>1. Active(k) => /\ requests'[Conn(k)] = requests[Conn(k)] /\ answers'[Conn(k)] = answers[Conn(k)]
                     /\ \A id \in CharacterIds :
                            \/ pendingHandoffs'[id] = pendingHandoffs[id]
                            \/ pendingHandoffs'[id].connection # Conn(k)
    BY <1>2, <1>4, <1>5, <1>8, NamedTyped
  <2> QED
    BY <1>0, <1>7, <2>1, SameTurned
<1>9. CASE Conn(k) = c /\ Active(k)
  <2>1. ASSUME client[k].step \in Waiting, ~ client[k].troubled
        PROVE  OneThing(k)' /\ Reasons(k)'
    <3>1. OneThing(k) /\ Reasons(k) /\ RequestFits(k, r)
      BY <1>4, <1>7, <1>9, <2>1 DEF Turned, Fits
    <3>2. /\ r.type = RequestOf(client[k].step) /\ answers[c] = <<>> /\ requests'[c] = <<>>
      <4>1. PICK q \in Request : /\ requests[c] = <<q>> /\ q.type = RequestOf(client[k].step)
                                 /\ answers[c] = <<>>
        BY <1>2, <1>9, <3>1 DEF OneThing
      <4>2. Head(<<q>>) = q /\ Tail(<<q>>) = <<>>
        OBVIOUS
      <4> QED
        BY <1>1, <1>4, <4>1, <4>2
    <3>3. \A id \in CharacterIds : pendingHandoffs[id] # None => pendingHandoffs[id].connection # c
      BY <1>2, <1>9, <3>1 DEF OneThing
    <3>4. CASE /\ r.type = "SelectCharacterRequest" /\ UNCHANGED answers
      <4>1. client[k].step = "select"
        BY <2>1, <3>2, <3>4, Paired
      <4>2. OneThing(k)'
        BY <1>7, <1>9, <3>2, <3>4, <4>1 DEF OneThing
      <4>3. Reasons(k)'
        BY <1>7, <1>9, <3>2, <3>4, <4>1, NoPackets DEF Reasons
      <4> QED
        BY <4>2, <4>3
    <3>5. ASSUME UNCHANGED pendingHandoffs, NEW a \in Response, Reply(r, a),
                 answers'[c] = IF Open(c) THEN Append(answers[c], a) ELSE answers[c]
          PROVE  OneThing(k)' /\ Reasons(k)'
      <4>1. answers'[c] \in {<<>>, <<a>>}
        BY <3>2, <3>5
      <4>2. a.type = ResponseOf(client[k].step)
        BY <2>1, <3>2, <3>5, Paired
      <4>3. OneThing(k)'
        BY <1>7, <1>9, <3>2, <3>3, <3>5, <4>1, <4>2 DEF OneThing
      <4>4. Reasons(k)'
        BY <1>0, <1>2, <1>7, <1>9, <2>1, <3>1, <3>2, <3>5, <4>1, ReplyReasons
      <4> QED
        BY <4>3, <4>4
    <3> QED
      BY <1>2, <3>4, <3>5 DEF Handled
  <2>2. ASSUME client[k].step = "failed"
        PROVE  /\ Active(k)'
               /\ ~ client'[k].troubled =>
                      /\ client'[k].refused = "relogin" => LoginRefused(k)'
                      /\ client'[k].refused = "list" => CharacterRefused(k)'
    BY <1>0, <1>7, <1>9, <2>2, ReasonsKept DEF Turned
  <2> QED
    BY <1>7, <2>1, <2>2 DEF Turned
<1> QED
  BY <1>8, <1>9

LEMMA ReadyTurn ==
    ASSUME TypeOK, TypeOK', Counted, Counted', WishInv, TurnInv, PlayerEnterReady
    PROVE  TurnInv'
<1>0. [Next]_vars
  BY DEF Next
<1>1. UNCHANGED <<requests, client>>
  BY ReadyEffect
<1>2. SUFFICES ASSUME NEW k \in Clients PROVE Turned(k)'
  BY DEF TurnInv
<1>3. Fits(k) /\ Turned(k) /\ Conn(k)' = Conn(k) /\ Active(k)' = Active(k) /\ client'[k] = client[k]
  BY <1>1 DEF WishInv, TurnInv, Conn, Active
<1>4. PICK id \in CharacterIds :
          \/ UNCHANGED <<pendingHandoffs, answers>>
          \/ /\ pendingHandoffs[id] # None
             /\ pendingHandoffs' = [pendingHandoffs EXCEPT ![id] = None]
             /\ \A d \in Connections \ {pendingHandoffs[id].connection} : answers'[d] = answers[d]
             /\ \E a \in Response :
                    /\ a.type = "ZoneConnectInfo"
                    /\ answers'[pendingHandoffs[id].connection] =
                           IF Open(pendingHandoffs[id].connection)
                           THEN Append(answers[pendingHandoffs[id].connection], a)
                           ELSE answers[pendingHandoffs[id].connection]
  BY ReadyEffect
<1>5. \A x \in CharacterIds : pendingHandoffs'[x] \in {None, pendingHandoffs[x]}
  BY <1>4 DEF TypeOK
<1>6. CASE \/ ~ Active(k) \/ UNCHANGED answers
           \/ pendingHandoffs[id] # None /\ pendingHandoffs[id].connection # Conn(k)
  <2>1. Active(k) => answers'[Conn(k)] = answers[Conn(k)]
    BY <1>4, <1>6, NamedTyped
  <2> QED
    BY <1>0, <1>1, <1>3, <1>5, <2>1, SameTurned
<1>7. CASE /\ Active(k) /\ answers' # answers
           /\ pendingHandoffs[id] # None /\ pendingHandoffs[id].connection = Conn(k)
  <2>1. ASSUME client[k].step \in Waiting, ~ client[k].troubled
        PROVE  OneThing(k)' /\ Reasons(k)'
    <3>1. OneThing(k) /\ Reasons(k)
      BY <1>3, <2>1 DEF Turned
    <3>2. client[k].step = "select" /\ requests[Conn(k)] = <<>> /\ answers[Conn(k)] = <<>>
      BY <1>7, <3>1 DEF OneThing
    <3>3. PICK a \in Response : /\ a.type = "ZoneConnectInfo"
                                /\ answers'[Conn(k)] \in {<<>>, <<a>>}
      <4>1. PICK a \in Response :
                /\ a.type = "ZoneConnectInfo"
                /\ answers'[Conn(k)] \in {Append(answers[Conn(k)], a), answers[Conn(k)]}
        BY <1>4, <1>7
      <4>2. Append(<<>>, a) = <<a>>
        OBVIOUS
      <4> QED
        BY <3>2, <4>1, <4>2
    <3>4. \A x \in CharacterIds :
              pendingHandoffs'[x] # None => pendingHandoffs'[x].connection # Conn(k)
      <4>1. ASSUME NEW x \in CharacterIds, pendingHandoffs[x] # None,
                   pendingHandoffs[x].connection = Conn(k)
            PROVE  x = id
        BY <1>3, <1>7, <4>1 DEF Fits, HandoffFits
      <4> QED
        BY <1>4, <1>5, <1>7, <4>1 DEF TypeOK
    <3>5. OneThing(k)'
      BY <1>1, <1>3, <3>2, <3>3, <3>4 DEF OneThing, ResponseOf
    <3>6. Reasons(k)'
      BY <1>3, <3>2 DEF Reasons
    <3> QED
      BY <3>5, <3>6
  <2>2. ASSUME client[k].step = "failed"
        PROVE  /\ Active(k)'
               /\ ~ client'[k].troubled =>
                      /\ client'[k].refused = "relogin" => LoginRefused(k)'
                      /\ client'[k].refused = "list" => CharacterRefused(k)'
    BY <1>0, <1>3, <1>7, <2>2, ReasonsKept DEF Turned
  <2> QED
    BY <1>3, <2>1, <2>2 DEF Turned
<1> QED
  BY <1>4, <1>6, <1>7

\* The script goes on: it sends one request when nothing else is under way.
LEMMA OutcomeTurned ==
    ASSUME TypeOK, TypeOK', Counted, Counted', [Next]_vars, NEW k \in Clients,
           client[k].step \in Waiting, Fits(k), Turned(k), SameRun(k),
           UNCHANGED <<tables, clock, pendingHandoffs>>, ~ client'[k].troubled,
           answers[Conn(k)] # <<>>, NEW packet, packet = Head(answers[Conn(k)]),
           Outcome(k, packet),
           answers'[Conn(k)] = IF client'[k].step \in Waiting THEN Tail(answers[Conn(k)]) ELSE <<>>
    PROVE  Turned(k)'
<1> DEFINE old == client[k]
           new == client'[k]
           w   == client[k].wish
           granted == Grants(packet, old.step)
<1>1. /\ new.wish = w /\ ~ old.troubled /\ Active(k)
      /\ Conn(k)' = Conn(k) /\ Active(k)'
  BY InIsActive DEF SameRun, Conn, Active
<1>2. OneThing(k) /\ Reasons(k)
  BY <1>1 DEF Turned
<1>3. /\ packet \in Response /\ packet.type = ResponseOf(old.step)
      /\ answers[Conn(k)] = <<packet>> /\ Tail(answers[Conn(k)]) = <<>>
      /\ requests[Conn(k)] = <<>>
  <2>1. PICK a \in Response : /\ answers[Conn(k)] = <<a>> /\ a.type = ResponseOf(old.step)
                              /\ requests[Conn(k)] = <<>>
    BY <1>2 DEF OneThing
  <2>2. Head(<<a>>) = a /\ Tail(<<a>>) = <<>>
    OBVIOUS
  <2> QED
    BY <2>1, <2>2
<1>4. \A id \in CharacterIds :
          pendingHandoffs'[id] # None => pendingHandoffs'[id].connection # Conn(k)
  BY <1>2, <1>3 DEF OneThing
<1>5. answers'[Conn(k)] = <<>>
  BY <1>3
<1>6. old.step # "register" => (granted <=> packet.ok)
  <2>1. old.step \in {"login", "register", "relogin", "create", "list", "select"}
    BY DEF Waiting, Steps
  <2> QED
    BY <1>3, <2>1, Records DEF Grants, ResponseOf
<1>7. w.user \in Users /\ w \in Wishes[k] /\ old.hash \in Nat
  BY <1>1, NamedTyped DEF TypeOK, Run
\* The reasons are those of the run as it was.
<1>8. /\ Registered(k) <=> Registered(k)'
      /\ LoginRefused(k) <=> LoginRefused(k)'
  BY <1>1 DEF Registered, LoginRefused, tables
<1>9. new.hash = old.hash => (CharacterRefused(k) => CharacterRefused(k)')
  BY <1>1, ReasonsKept
<1>10. ASSUME NEW step \in Waiting, NEW r \in Request, Sent(k, step, r), r.type = RequestOf(step),
              step = "relogin" => Registered(k),
              step = "list" => CharacterRefused(k)'
       PROVE  Turned(k)'
  <2>1. new.step = step /\ requests'[Conn(k)] = <<r>>
    <3>1. Append(<<>>, r) = <<r>>
      OBVIOUS
    <3> QED
      BY <1>3, <1>10, <3>1 DEF Sent
  <2>2. OneThing(k)'
    BY <1>1, <1>4, <1>5, <1>10, <2>1 DEF OneThing
  <2>3. Reasons(k)'
    BY <1>1, <1>5, <1>8, <1>10, <2>1, NoPackets DEF Reasons
  <2> QED
    BY <1>10, <2>1, <2>2, <2>3 DEF Turned, Waiting
<1>11. CASE /\ old.step \in {"login", "relogin"} /\ granted
            /\ new.hash = packet.hash
            /\ Sent(k, "create",
                    [type |-> "CreateCharacterRequest", name |-> w.name,
                     race |-> w.race, class |-> w.class, hash |-> packet.hash])
  <2>1. packet.hash \in Nat
    BY <1>3, <1>11, Granted
  <2>2. PICK r : r = [type |-> "CreateCharacterRequest", name |-> w.name,
                      race |-> w.race, class |-> w.class, hash |-> packet.hash]
    OBVIOUS
  <2>3. r \in Request /\ r.type = RequestOf("create")
    BY <1>7, <2>1, <2>2, WishRequests DEF RequestOf
  <2> QED
    BY <1>10, <1>11, <2>2, <2>3 DEF Waiting, Steps
<1>12. CASE /\ old.step = "login" /\ ~ granted /\ new.hash = old.hash
            /\ Sent(k, "register",
                    [type |-> "CreateAccountRequest", user |-> w.user, password |-> w.password])
  <2>1. PICK r : r = [type |-> "CreateAccountRequest", user |-> w.user, password |-> w.password]
    OBVIOUS
  <2>2. r \in Request /\ r.type = RequestOf("register")
    BY <1>7, <2>1, WishRequests DEF RequestOf
  <2> QED
    BY <1>10, <1>12, <2>1, <2>2 DEF Waiting, Steps
<1>13. CASE /\ old.step = "register" /\ new.hash = old.hash
            /\ Sent(k, "relogin", LoginRequest(w))
  <2>1. PICK r : r = LoginRequest(w)
    OBVIOUS
  <2>2. r \in Request /\ r.type = RequestOf("relogin")
    BY <1>7, <2>1, WishRequests DEF RequestOf, LoginRequest
  <2>3. Registered(k)
    BY <1>2, <1>13 DEF Reasons
  <2> QED
    BY <1>10, <1>13, <2>1, <2>2, <2>3 DEF Waiting, Steps
<1>14. CASE /\ old.step = "create" /\ ~ granted /\ new.hash = old.hash
            /\ Sent(k, "list", [type |-> "CharacterListRequest", hash |-> old.hash])
  <2>1. PICK r : r = [type |-> "CharacterListRequest", hash |-> old.hash]
    OBVIOUS
  <2>2. r \in Request /\ r.type = RequestOf("list")
    BY <1>7, <2>1, WishRequests DEF RequestOf
  <2>3. CharacterRefused(k)
    BY <1>2, <1>3, <1>6, <1>14, OnePacket DEF Reasons
  <2> QED
    BY <1>9, <1>10, <1>14, <2>1, <2>2, <2>3 DEF Waiting, Steps
<1>15. ASSUME new.hash = old.hash, NEW id \in CharacterIds,
              Sent(k, "select", [type |-> "SelectCharacterRequest", character |-> id,
                                 hash |-> old.hash])
       PROVE  Turned(k)'
  <2>1. PICK r : r = [type |-> "SelectCharacterRequest", character |-> id, hash |-> old.hash]
    OBVIOUS
  <2>2. r \in Request /\ r.type = RequestOf("select")
    BY <1>7, <2>1, WishRequests DEF RequestOf
  <2> QED
    BY <1>10, <1>15, <2>1, <2>2 DEF Waiting, Steps
<1>16. CASE old.step = "select" /\ granted /\ new.step = "in"
  BY <1>16 DEF Turned, Waiting
<1>17. CASE /\ new.step = "failed" /\ new.hash = old.hash
            /\ \/ new.troubled
               \/ /\ old.step \in {"relogin", "list", "select"} /\ new.refused = old.step
                  /\ granted => old.step = "list" /\ Listed(packet, w.name) = {}
  <2>1. old.step \in {"relogin", "list", "select"} /\ new.refused = old.step
        /\ (granted => old.step = "list")
    BY <1>17
  <2>2. old.step = "relogin" => LoginRefused(k)
    BY <1>2, <1>3, <1>6, <2>1, OnePacket DEF Reasons
  <2>3. old.step = "list" => CharacterRefused(k)
    BY <1>2 DEF Reasons
  <2> QED
    BY <1>1, <1>8, <1>9, <1>17, <2>1, <2>2, <2>3 DEF Turned, Waiting
<1> HIDE DEF granted
<1>18. \/ /\ new.hash = old.hash
          /\ \E id \in CharacterIds :
                 Sent(k, "select", [type |-> "SelectCharacterRequest", character |-> id,
                                    hash |-> old.hash])
       \/ Turned(k)'
  BY <1>11, <1>12, <1>13, <1>14, <1>16, <1>17 DEF Outcome, granted
<1> QED
  BY <1>15, <1>18

LEMMA ScriptTurn ==
    ASSUME TypeOK, TypeOK', Counted, Counted', WishInv, TurnInv,
           NEW k \in Clients, Read(k) \/ Silence(k) \/ HalfAnAnswer(k)
    PROVE  TurnInv'
<1>0. [Next]_vars
  BY DEF Next
<1>1. /\ client[k].step \in Waiting /\ SameRun(k)
      /\ UNCHANGED <<tables, clock, pendingHandoffs>>
      /\ \A d \in Connections \ {Conn(k)} : answers'[d] = answers[d]
      /\ \/ client'[k].troubled
         \/ /\ answers[Conn(k)] # <<>>
            /\ Outcome(k, Head(answers[Conn(k)]))
            /\ answers'[Conn(k)] = IF client'[k].step \in Waiting THEN Tail(answers[Conn(k)])
                                   ELSE <<>>
  BY ScriptOutcome
<1>2. Fits(k) /\ Turned(k) /\ Active(k)
  BY <1>1, InIsActive DEF WishInv, TurnInv
<1>3. /\ \A j \in Clients \ {k} : client'[j] = client[j]
      /\ \A d \in Connections \ {Conn(k)} : requests'[d] = requests[d]
      /\ Active(k)'
  BY <1>1, <1>2 DEF SameRun, Active
<1>4. Turned(k)'
  <2>1. CASE client'[k].troubled
    BY <1>3, <2>1 DEF Turned
  <2>2. CASE ~ client'[k].troubled
    <3>1. PICK packet : packet = Head(answers[Conn(k)])
      OBVIOUS
    <3> QED
      BY <1>0, <1>1, <1>2, <2>2, <3>1, OutcomeTurned
  <2> QED
    BY <2>1, <2>2
<1>5. ASSUME NEW j \in Clients \ {k} PROVE Turned(j)'
  <2>1. Fits(j) /\ Turned(j) /\ client'[j] = client[j] /\ Conn(j) # Conn(k)
    BY <1>3 DEF WishInv, TurnInv, Conn
  <2>2. Active(j) => requests'[Conn(j)] = requests[Conn(j)] /\ answers'[Conn(j)] = answers[Conn(j)]
    BY <1>1, <1>3, <2>1, NamedTyped
  <2>3. \A id \in CharacterIds : pendingHandoffs'[id] = pendingHandoffs[id]
    BY <1>1
  <2> QED
    BY <1>0, <2>1, <2>2, <2>3, SameTurned
<1> QED
  BY <1>4, <1>5 DEF TurnInv

LEMMA EnterTurn ==
    ASSUME TypeOK, TypeOK', Counted, Counted', WishInv, TurnInv,
           NEW k \in Clients, NEW wish \in Wishes[k], EnterWorld(k, wish)
    PROVE  TurnInv'
<1>0. [Next]_vars
  BY DEF Next
<1>1. PICK new : new = [step |-> "login", attempt |-> client[k].attempt + 1, wish |-> wish,
                        hash |-> 0, character |-> None, refused |-> "idle", troubled |-> FALSE]
  OBVIOUS
<1>2. PICK c : c = <<k, client[k].attempt + 1>>
  OBVIOUS
<1>3. /\ client' = [client EXCEPT ![k] = new]
      /\ requests' = [requests EXCEPT ![c] = <<LoginRequest(wish)>>]
      /\ UNCHANGED <<pendingHandoffs, answers>>
      /\ client[k].attempt < MaxAttempts[k]
  BY <1>1, <1>2 DEF EnterWorld
<1>4. new.step = "login" /\ new.attempt = client[k].attempt + 1
  BY <1>1
<1>5. client[k].attempt \in Nat /\ MaxAttempts[k] \in Nat
  BY LimitsAssumption DEF TypeOK, Run
<1>6. c \in Connections
  BY <1>2, <1>3, <1>5 DEF Connections
<1>7. /\ client'[k] = new /\ \A j \in Clients \ {k} : client'[j] = client[j]
      /\ requests'[c] = <<LoginRequest(wish)>>
      /\ \A d \in Connections \ {c} : requests'[d] = requests[d]
  BY <1>3, <1>6 DEF TypeOK
<1>8. Unused(c)
  <2>1. c[1] = k /\ c[2] > client[c[1]].attempt
    BY <1>2, <1>5
  <2> QED
    BY <1>6, <2>1 DEF WishInv, UnusedAhead
<1>9. Conn(k)' = c
  BY <1>2, <1>4, <1>7 DEF Conn
<1>10. Turned(k)'
  <2>1. PICK r : r = LoginRequest(wish)
    OBVIOUS
  <2>2. 0 \in Nat
    OBVIOUS
  <2>3. r \in Request /\ r.type = RequestOf("login")
    BY <2>1, <2>2, WishRequests DEF RequestOf, LoginRequest
  <2>4. OneThing(k)'
    BY <1>3, <1>4, <1>7, <1>8, <1>9, <2>1, <2>3 DEF OneThing, Unused
  <2>5. Reasons(k)'
    BY <1>3, <1>4, <1>7, <1>8, <1>9, NoPackets DEF Reasons, Unused
  <2> QED
    BY <1>4, <1>7, <2>4, <2>5 DEF Turned
<1>11. ASSUME NEW j \in Clients \ {k} PROVE Turned(j)'
  <2>1. Fits(j) /\ Turned(j) /\ client'[j] = client[j] /\ Conn(j) # c
    BY <1>2, <1>7 DEF WishInv, TurnInv, Conn
  <2>2. Active(j) => requests'[Conn(j)] = requests[Conn(j)]
    BY <1>7, <2>1, NamedTyped
  <2> QED
    BY <1>0, <1>3, <2>1, <2>2, SameTurned
<1> QED
  BY <1>10, <1>11 DEF TurnInv

LEMMA TurnStep ==
    TypeOK /\ TypeOK' /\ Counted /\ Counted' /\ WishInv /\ TurnInv /\ [Next]_vars => TurnInv'
<1> SUFFICES ASSUME TypeOK, TypeOK', Counted, Counted', WishInv, TurnInv, [Next]_vars
             PROVE  TurnInv'
  OBVIOUS
<1>1. ASSUME NEW c \in Connections, Handle(c) PROVE TurnInv'
  BY <1>1, HandleTurn
<1>2. CASE PlayerEnterReady
  BY <1>2, ReadyTurn
<1>3. ASSUME client' = client,
             \A c \in Connections : /\ requests'[c] \in {requests[c], <<>>}
                                    /\ answers'[c] \in {answers[c], <<>>},
             \A id \in CharacterIds : pendingHandoffs'[id] \in {None, pendingHandoffs[id]}
      PROVE  TurnInv'
  <2> SUFFICES ASSUME NEW k \in Clients PROVE Turned(k)'
    BY DEF TurnInv
  <2>1. Fits(k) /\ Turned(k) /\ client'[k] = client[k]
    BY <1>3 DEF WishInv, TurnInv
  <2>2. Active(k) => /\ requests'[Conn(k)] \in {requests[Conn(k)], <<>>}
                     /\ answers'[Conn(k)] \in {answers[Conn(k)], <<>>}
    BY <1>3, NamedTyped
  <2> QED
    BY <1>3, <2>1, <2>2, SameTurned
<1>4. CASE Restart
  <2>1. client' = client
    BY <1>4 DEF Restart
  <2>2. /\ \A c \in Connections : requests'[c] = <<>> /\ answers'[c] = <<>>
        /\ \A id \in CharacterIds : pendingHandoffs'[id] = None
    BY <1>4 DEF Restart
  <2> QED
    BY <1>3, <2>1, <2>2
<1>5. ASSUME NEW k \in Clients, NEW wish \in Wishes[k], EnterWorld(k, wish) PROVE TurnInv'
  BY <1>5, EnterTurn
<1>6. ASSUME NEW k \in Clients, Read(k) \/ Silence(k) \/ HalfAnAnswer(k) PROVE TurnInv'
  BY <1>6, ScriptTurn
<1>7. ASSUME NEW k \in Clients, Quit(k) PROVE TurnInv'
  <2>1. PICK new : new = [client[k] EXCEPT !.step = "idle"]
    OBVIOUS
  <2>2. /\ client' = [client EXCEPT ![k] = new]
        /\ UNCHANGED <<requests, answers, pendingHandoffs>>
    BY <1>7, <2>1 DEF Quit, wire, TypeOK
  <2>3. new.step = "idle"
    BY <2>1 DEF TypeOK, Run
  <2>4. client'[k] = new /\ \A j \in Clients \ {k} : client'[j] = client[j]
    BY <2>2 DEF TypeOK
  <2>5. Turned(k)'
    BY <2>3, <2>4 DEF Turned, Waiting
  <2>6. ASSUME NEW j \in Clients \ {k} PROVE Turned(j)'
    <3>1. Fits(j) /\ Turned(j) /\ client'[j] = client[j]
      BY <2>4 DEF WishInv, TurnInv
    <3> QED
      BY <2>2, <3>1, SameTurned
  <2> QED
    BY <2>5, <2>6 DEF TurnInv
<1>8. ASSUME NEW id \in CharacterIds, NEW zone \in Zones, ZoneSaves(id, zone) PROVE TurnInv'
  <2>1. UNCHANGED <<requests, answers, client, pendingHandoffs>>
    BY <1>8 DEF ZoneSaves, wire
  <2> QED
    BY <1>3, <2>1
<1>9. CASE Tick \/ UNCHANGED vars
  <2>1. UNCHANGED <<requests, answers, client, pendingHandoffs>>
    BY <1>9 DEF Tick, vars, wire
  <2> QED
    BY <1>3, <2>1
<1> QED
  BY <1>1, <1>2, <1>4, <1>5, <1>6, <1>7, <1>8, <1>9 DEF Next

LEMMA TurnInitially == Init => TurnInv
<1> SUFFICES ASSUME Init, NEW k \in Clients PROVE Turned(k)
  BY DEF TurnInv
<1>1. client[k].step = "idle"
  BY DEF Init, Nobody
<1> QED
  BY <1>1 DEF Turned, Waiting

\* A script whose every answer came in time is turned away, where it logs in or looks for its
\* character, only for what its user typed, or because its day is over: handleClientPacket answers a registration that comes second
\* as it would a known name, and a character that is there already as if it had made it,
\* so that performLoginAndHandoff, which tries both, does not notice the others.
THEOREM TurnedAwayWithReason == Spec => []TurnedAwayForAReason
<1>1. TurnInv => TurnedAwayForAReason
  BY DEF TurnInv, Turned, LoginRefused, CharacterRefused, TurnedAwayForAReason
<1>2. Spec => []Counted
  BY TypeCorrect, CountedInitially, CountedStep, PTL DEF Spec
<1>3. Spec => []TurnInv
  BY <1>2, TypeCorrect, WishInvariant, TurnInitially, TurnStep, PTL DEF Spec
<1> QED
  BY <1>1, <1>3, PTL
=============================================================================
