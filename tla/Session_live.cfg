SPECIFICATION FairSessionSpec
CONSTANTS
    c1 = c1
    c2 = c2
    Client <- OneClient
    Port <- OnePort
    OldClient = {}
    MaxClients = 2
    Timeout = 1
    AliveTimeout = 1
    HostPlays = TRUE
    MaxInbox = 1
    MaxTux = 1
    MaxFaults = 1
PROPERTY DepartedLeave
PROPERTY OrphansEnd
PROPERTY JoinsResolve
