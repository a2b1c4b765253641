SPECIFICATION Spec
CONSTANTS
    t1 = t1
    t2 = t2
    s1 = s1
    Tuxes <- TwoTuxes
    Shots <- OneShot
    Files <- SomeFiles
    Bonuses <- SomeBonuses
    Places <- SomePlaces
    Width = 9
    Height = 6
    TuxSize = 2
    TuxStep = 1
    TuxGap = 1
    ShotGap = 1
    LaserLength = 4
    BallSide = 1
    AimLimit = 2
    BonusTime = 1
    LookGap = 1
    MaxLooks = 20
CONSTRAINT Small
CHECK_DEADLOCK FALSE
INVARIANTS SolidStandsFree ClearOfExit LoadsInOrder AIFindsTheWay
