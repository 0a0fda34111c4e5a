SPECIFICATION Spec
CONSTANTS
    Players = {a, b}
    None = None
    LastTile = 3
    Walls = {}
    EntryTile = 0
    CentreTile = 1
    PortalTile = 0
    NpcTile = 1
    SpawnTile <- MCSpawnTile
    AggroRadius = 1
    SayRadius = 1
    NpcRadius = 1
    MaxFights = 2
    Requests = {"move", "portal", "talk", "stuck", "attack", "trade", "say", "debug", "teleport"}
    MaxBacklog = 1
    MaxActs = 5
SYMMETRY PlayersAreAlike
INVARIANTS
    TypeOK
    ShowsWhereTheyAre
    WindowFollowsTheFight
    AnAnswerIsOnItsWay
PROPERTIES
    AnswersAreTheirOwn
CHECK_DEADLOCK FALSE
