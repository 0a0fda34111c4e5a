SPECIFICATION FairSpec
CONSTANTS
    Login = Login
    None = None
    Running = {"starter_hunting", "starter_dungeon"}
    MaxStarts = 3
    MaxBooting = 2
    MaxKills = 1
INVARIANTS
    TypeOK
    LoneStartSucceeds
    ServedWhole
PROPERTIES
    WorldIsKept
    EveryStartEnds
CHECK_DEADLOCK FALSE
