SPECIFICATION Spec
CONSTANTS
    dagger = dagger
    tunic = tunic
    staff = staff
    first = first
    second = second
    Nothing = Nothing
    Gone = Gone
    Empty = Empty
    Items <- TheItems
    Catalog <- TheCatalog
    Slots <- TheSlots
    Stock <- TheStock
    SellIds <- TheSellIds
    Caps <- TheCaps
    RowClass = "cleric"
    Charisma = 100
    Heroes <- TheHeroes
    Quantities = {1, 2}
    CombatEvents = {"hit"}
    Combats <- TheCombats
    Activities = {"forage"}
    Loots <- TheLoots
    Rewards = {650}
    QuantityWidth = 65536
    GoldWidth = 1000000
    MaxEvents = 2
SYMMETRY FightsAreAlike
CHECK_DEADLOCK FALSE
INVARIANTS
    TypeOK
    ARestartLosesNothing
    WindowsShowTheCharacter
PROPERTIES
    NoMoneyPump
    GoodsAreAccountedFor
