SPECIFICATION Spec
CONSTANTS
    Client = {c1, c2}
    Id = {i1, i2, i3}
    MaxSend = 1
    Interval = 0
    MaxMsg = 2
    MaxObject = 1
    ReuseInFlight = TRUE
    NoId = NoId
SYMMETRY Symmetry
INVARIANT OneEntryPerId
INVARIANT HeldIdsCounted
