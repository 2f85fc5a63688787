SPECIFICATION FairSpec
CONSTANTS
    MaxLength = 3
    Packet = 2
    Fifo = 2
    MaxText = 7
    MaxChars = 8
    Races = {"aborted"}
INVARIANTS
    HostReadsInOrder
PROPERTIES
    FlightUntouched
    TextArrives
CHECK_DEADLOCK FALSE
