SPECIFICATION FairSpec
CONSTANTS
    k1 = k1
    k2 = k2
    ann = ann
    bob = bob
    city = city
    woods = woods
    None = None
    Clients = {k1}
    Characters = {ann}
    Plays <- Alone
    Zones = {city, woods}
    MaxLogins = 2
    MaxState = 1
    MaxTimeouts = 1
    MaxCrashes = 0
PROPERTIES
    EveryRequestIsAnswered
CHECK_DEADLOCK FALSE
