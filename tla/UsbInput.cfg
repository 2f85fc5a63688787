SPECIFICATION Spec
CONSTANTS
    Size = 4
    MaxPacket = 4
    Margins = {0, 2}
    MaxChars = 8
    Races = {"receive_in_flush"}
PROPERTIES
    RoomIsThere
    ReadsInOrder
