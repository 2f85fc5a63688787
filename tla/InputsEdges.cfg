SPECIFICATION FairSpec
CONSTANTS
    Pins = {6, 7, 8}
    LimitInputs <- TwoLimits
    Inverted = {7}
    PullupOff = {8}
    Debounced = {6}
    Mode <- OnRise
    MaxTasks = 1
    Races = {}
INVARIANTS
    TypeOK
    EdgesCountOnce
PROPERTIES
    EdgeIsTold
