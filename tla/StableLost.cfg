SPECIFICATION FairSpec
CONSTANTS
    KpNum = 1
    KpDen = 2
    Position = {0, 1, 2}
    MinStable = 32
    BusLatency = 2
    MaxCommands = 2
PROPERTY
    ReachedIsAnnounced
