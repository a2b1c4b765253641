SPECIFICATION TimedSpec
CONSTANTS
    t1 = t1
    t2 = t2
    i1 = i1
    NoTux = NoTux
    Tuxes <- Two
    NetTuxes <- None
    Items <- None
    Guns <- Tommy
    Bonuses <- None
    GunMaxShot = 1
    MaxBonus = 1
    MaxPickup = 1
    SpawnTime = 2
    CanShotTime = 1
    CanSwitchTime = 1
    TommyTimes <- TwoShots
    LaserTimes <- OneShot
    MaxRound = 2
    EndTime = 1
    MaxAmmo = 1
    MaxTimers = 4
INVARIANTS OneSpawn OneReload EndIsPending
PROPERTIES RespawnsClean Respawns
