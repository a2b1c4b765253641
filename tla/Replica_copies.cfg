SPECIFICATION Spec
CONSTANTS
    me = me
    t1 = t1
    i1 = i1
    e1 = e1
    s1 = s1
    Me = me
    Others <- One
    Items <- OneItem
    Explosions <- OneExplosion
    Shots <- OneShot
    Author <- FiredByTheOther
    MaxRound = 2
    MaxSend = 1
    MaxDown = 2
    MaxChanges = 1
CHECK_DEADLOCK FALSE
CONSTRAINT OneObject
INVARIANTS ReplicaSound GoneStayGone RoundsNotAhead QuietAgrees
