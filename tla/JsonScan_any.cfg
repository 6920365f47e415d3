SPECIFICATION SpecChunks
CONSTANTS
    MaxChunks = 5
INVARIANTS
    RoomForAnyText
CHECK_DEADLOCK FALSE
