SPECIFICATION Spec
CONSTANTS
    None = None
    Files <- MCFiles
    Depth = 3
    MaxDigits = 2
    Command <- MCCommand
    CommandLength = 3
    ReportBytes = 3
    AnswerBytes = 2
    RxSize = 2
    TxSize = 1
    MaxCommands = 2
    Reach = 6
    MaxPeriod = 4
    Width = 5
    Fraction = 2
    CounterBits = 2
    DutyBits = 2
    BASE_PWM = 1
    Gain <- MCGain
    Rate = {0, 1, 2, 3}
    Setpoint <- MCSetpoint
    Reading <- MCReading
    Base = 7
    Period = 13
    MaxTime = 34
INVARIANTS
    MifIsTheImage
    FramesAreCommands
    PositionIsExact
    PulseIsAsProgrammed
    OnlyTheSumMustFit
    DriveIsMonotone
    TimerTypeOK
    ReadIsCurrent
    CompareNeverEarly
PROPERTIES
    SentIsExecuted
    SamplingGoesOn
    HandlerIsNotEarly
    DeadlineIsMet
CHECK_DEADLOCK FALSE
