SPECIFICATION FairSpec
CONSTANTS
    Client = {c1}
    Id = {i1, i2, i3}
    MaxSend = 2
    Interval = 1
    MaxMsg = 3
    MaxObject = 0
    ReuseInFlight = FALSE
    NoId = NoId
PROPERTY LeavesForAReason
PROPERTY KeepsPromise
PROPERTY EveryEntryResolved
