SPECIFICATION Spec
CONSTANTS
    Players = {a}
    None = None
    LastTile = 3
    Walls = {}
    EntryTile = 0
    CentreTile = 1
    PortalTile = 0
    NpcTile = 1
    SpawnTile <- MCSpawnTile
    AggroRadius = 1
    SayRadius = 1
    NpcRadius = 1
    MaxFights = 1
    Requests = {"move", "stuck"}
    MaxBacklog = 1
    MaxActs = 5
PROPERTIES
    RepliesAreCorrelated
CHECK_DEADLOCK FALSE
