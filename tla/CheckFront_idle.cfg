SPECIFICATION Spec
CONSTANTS
    Client = {c1}
    Id = {i1, i2, i3}
    MaxSend = 1
    Interval = 1
    MaxMsg = 3
    MaxObject = 0
    ReuseInFlight = TRUE
    NoId = NoId
INVARIANT IdleServerHasFreeId
