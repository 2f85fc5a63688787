SPECIFICATION Spec
CONSTANTS
    Sectors = {0, 1}
    Areas = {{0}, {1}, {0, 1}}
    Values = {1, 2}
    NoRequest = NoRequest
    NoTransfer = NoTransfer
    Blank = Blank
    SdRaces = {"late_write"}
    Keypads = {1, 2}
    Keys = {1, 2}
    I2cRaces = {}
    Words = 3
    Contents = {1, 2}
    Erased = Erased
    Junk = Junk
    MaxFilters = 2
    FifoSize = 3
    Owners = {1, 2}
    Lengths = {1, 3}
    red = red
    blue = blue
    Colours = {red, blue}
    Off = Off
INVARIANTS
    TypesOK
    SettingsSurvive
    FramesReachTheirOwner
    StripCatchesUp
PROPERTIES
    IsBlockDevice
    ReceivesAreAwaited
CHECK_DEADLOCK FALSE
