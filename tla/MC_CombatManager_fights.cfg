SPECIFICATION Spec
CONSTANTS
    ann = ann
    Characters = {ann}
    MaxHp = 2
    MaxFights = 3
    Gone = Gone
INVARIANTS
    TypeOK
    FlaggedMeansFighting
    NothingUnsaved
    OneFightAtATime
PROPERTIES
    OnlyLiveFightsHurt
CHECK_DEADLOCK FALSE
