SPECIFICATION Spec
CONSTANTS
    TOff = 3
    TOffMin = 2
    TOn = 2
    MinPeriod = 6
    Limit = 9
    Periods = {4, 7, 9}
    WakeUp = 8
    Entry = 6
    Output = 2
    Rest = 7
    Races = {"idle_overdue", "clear_in_delay", "delay_overdue"}
INVARIANTS
    EveryStepIsAnEdge
    PulseWillEnd
    NoUpdateDropped
PROPERTIES
    PulseAndPauseLast
