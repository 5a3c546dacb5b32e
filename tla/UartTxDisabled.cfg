SPECIFICATION Spec
CONSTANTS
    BufferLength = 4
    DataBits = 2
    CounterMax = 12
    Selector = {"off", "on"}
    Disabled = "off"
    Baud = "on"
    Divisor <- MCDivisor
    Word <- MCWord
    Enable <- MCEnable
    BootCycles = 2
    BaudFirst = FALSE
    None = None
PROPERTY
    DisabledStallsTx
