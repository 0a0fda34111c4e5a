SPECIFICATION FairSpec
CONSTANTS
    NumPlayers = 2
    NumEnemies = 1
    MaxHp <- BossMaxHp
    Kit <- BossKit
    StartHp = {0, 2}
    MaxMana = 1
    ManaCost = 1
    GodMode = {}
    Scripted = {3}
    RagePercent = 51
    Damage = {1}
    RageDamage = {2}
    DefendBonus = 0
    HealAmount = {1}
    TickDamage = {0}
    StunTurns = 2
    DotTurns = 2
    MaxThreat = 150
INVARIANTS
    TypeOK
    TurnHolderAlive
    OutcomeMatchesTheStanding
    DeadHaveNoHp
    StunLosesItsFirstTurn
PROPERTIES
    ImplementsRotation
    EveryoneGetsATurn
CHECK_DEADLOCK FALSE
