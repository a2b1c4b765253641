SPECIFICATION LiveSpec
CONSTANTS
    t1 = t1
    t2 = t2
    i1 = i1
    NoTux = NoTux
    Tuxes <- OnlyOne
    NetTuxes <- OnlyOne
    Items <- OneItem
    Guns <- Balls
    Bonuses <- TeleportAndGhost
    GunMaxShot = 1
    MaxBonus = 1
    MaxPickup = 2
    SpawnTime = 1
    CanShotTime = 1
    CanSwitchTime = 0
    TommyTimes <- OneShot
    LaserTimes <- OneShot
    MaxRound = 2
    EndTime = 2
    MaxAmmo = 1
    MaxTimers = 2
INVARIANTS HoldsLoadedGun MinesHaveOwners
PROPERTY Rearms
