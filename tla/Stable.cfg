SPECIFICATION FairSpec
CONSTANTS
    KpNum = 1
    KpDen = 1
    Position = {0, 1}
    MinStable = 32
    BusLatency = 2
    MaxCommands = 2
INVARIANTS
    TypeOK
    SettledIsFlagged
PROPERTIES
    SetpointIsAnnounced
