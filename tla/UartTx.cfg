SPECIFICATION FairSpec
CONSTANTS
    BufferLength = 4
    DataBits = 2
    CounterMax = 12
    Selector = {"off", "on"}
    Disabled = "off"
    Baud = "on"
    Divisor <- MCDivisor
    Word <- MCWord
    Enable <- MCEnable
    BootCycles = 12
    BaudFirst = TRUE
    None = None
INVARIANTS
    LinkTypeOK
    SendsTheHead
PROPERTIES
    CountersStayInRange
    HeardAsWritten
    WritesComplete
    WrittenIsHeard
