SPECIFICATION Spec
CONSTANTS
    Unit = 3
    Lateness = 4
    MaxTime = 14
    Microseconds = 100
    TimeRaces = {}
    MaxDelay = 3
    Callbacks = {1, 2}
    DelayRaces = {"tick_in_arm", "nested", "rearm"}
    x = x
    y = y
    Axes = {x, y}
    MaxSteps = 2
    InjectRaces = {}
    Width = 4
    StampWidth = 3
    Tics = 2
    MaxPulses = 6
    MaxStamp = 5
    EncoderRaces = {}
    Bits = 2
    RequestLength = 2
    ReplyLength = 2
    Period = 6
    IrqLate = 1
    PollLate = 1
    AbortTimeout = 50
    Pause = 50
    SwitchDelay = 4
    UartRaces = {}
INVARIANTS
    TypesOK
    EveryInjectionIsAnEdge
    PinsFollowTheirOwner
    NextPulseIsTold
    PulseLengthIsTrue
    LineIsTrue
PROPERTIES
    TimeIsSound
    OnTime
    CallbackComes
    CountIsTrue
CHECK_DEADLOCK FALSE
