SPECIFICATION Spec
CONSTANTS
    BufferLength = 4
    DataBits = 2
    CounterMax = 21
    Selector = {"off", "on"}
    Disabled = "off"
    Baud = "on"
    Divisor <- MCDivisor
    Sent <- MCSent
    BootCycles = 0
    None = None
INVARIANTS
    LinkTypeOK
    FifoHoldsWhatWasSent
    PollIsStillTrue
PROPERTY
    ReadAsSent
VIEW WithoutTxPhase
