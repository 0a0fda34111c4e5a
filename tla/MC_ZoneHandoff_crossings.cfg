SPECIFICATION Spec
CONSTANTS
    k1 = k1
    k2 = k2
    ann = ann
    bob = bob
    city = city
    woods = woods
    None = None
    Clients = {k1, k2}
    Characters = {ann, bob}
    Plays <- Pair
    Zones = {city, woods}
    MaxLogins = 1
    MaxState = 1
    MaxTimeouts = 0
    MaxCrashes = 1
INVARIANTS
    TypeOK
    OneHome
    NotStranded
PROPERTIES
    ImplementsStore
CHECK_DEADLOCK FALSE
