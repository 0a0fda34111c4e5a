SPECIFICATION FairSpec
CONSTANTS
    k1 = k1
    k2 = k2
    ann = ann
    secret = secret
    guess = guess
    aria = aria
    brom = brom
    city = city
    None = None
    Clients = {k1, k2}
    Wishes <- TheWishes
    Malformed = {}
    Classes <- TheClasses
    StartZone <- TheStart
    Zones = {city}
    Banned = {}
    CharacterLimit = 1
    SessionLife = 1
    MaxAttempts <- TheAttempts
    MaxClock = 1
    MaxProgress = 1
    MaxTroubles = 1
INVARIANTS
    TypeOK
    EntersAsTyped
    LimitHolds
    TurnedAwayForAReason
PROPERTIES
    EveryLoginEnds
CHECK_DEADLOCK FALSE
