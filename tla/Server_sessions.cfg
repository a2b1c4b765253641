SPECIFICATION Spec
CONSTANTS
    c1 = c1
    c2 = c2
    c3 = c3
    Client <- ThreeClients
    Port <- OwnPorts
    MaxClients = 2
    Timeout = 0
    HostPlays = FALSE
    MaxInbox = 1
    MaxTux = 3
SYMMETRY Symmetry
CONSTRAINT OneBusy
INVARIANT PlayersAgree
INVARIANT OwnedTuxes
PROPERTY ToldWhy
PROPERTY KeepsLobby
