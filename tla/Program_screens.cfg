SPECIFICATION MCSpec
CONSTANTS
    Rest = 1
    Size = 4
    Block = 2
    Chunk = 2
    ClientBuffer = 3
    MaxReads = 2
    MaxSendMsg = 2
    Servers = {s1, s2}
    Blank = blank
    MaxStale = 2
INVARIANT HotKeysFit
INVARIANT PlaysTheChosen
INVARIANT WholeFile
PROPERTY DownloadEnds
CHECK_DEADLOCK FALSE
