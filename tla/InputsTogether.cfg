SPECIFICATION Spec
CONSTANTS
    Pins = {6, 7, 8}
    LimitInputs <- OneLimit
    Inverted = {}
    PullupOff = {7}
    Debounced = {6}
    Mode <- Mixed
    MaxTasks = 1
    Races = {"together", "imr_preempted", "late_change", "enable_in_debounce"}
INVARIANTS
    MaskFollowsUse
