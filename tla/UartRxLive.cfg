SPECIFICATION FairSpec
CONSTANTS
    BufferLength = 2
    DataBits = 2
    CounterMax = 21
    Selector = {"off", "on"}
    Disabled = "off"
    Baud = "on"
    Divisor <- MCDivisor
    Sent <- MCOneByte
    BootCycles = 0
    None = None
PROPERTY
    SentIsReadOrDropped
