SPECIFICATION FairSpec
CONSTANTS
    TOff = 3
    TOffMin = 2
    TOn = 2
    MinPeriod = 6
    Limit = 9
    Periods = {4, 7, 9}
    WakeUp = 8
    Entry = 2
    Output = 1
    Rest = 4
    Races = {}
PROPERTIES
    DirectionSettles
    NoCallbackWhenIdle
    StepComesOut
