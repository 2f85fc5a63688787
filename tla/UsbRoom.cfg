SPECIFICATION Spec
CONSTANTS
    Size = 4
    MaxPacket = 4
    Margins = {0}
    MaxChars = 9
    Races = {}
INVARIANTS
    RoomAsReported
